---- MODULE Spec2Model ----
(***************************************************************************)
(* Policy MCP: the in-memory PolicyStore (src/src/policy-store.ts) and its *)
(* keyword search, and the REST endpoints and MCP tools of src/src/index.ts*)
(* that call it.                                                           *)
(*                                                                         *)
(* A JavaScript string is modelled as a sequence of one-character strings, *)
(* so that toLowerCase, trim, split, includes and RegExp matching are      *)
(* computed character by character.  relevanceScore is kept in HALF points *)
(* (the code adds 10, 1 and 0.5; the model adds 20, 2 and 1), so that it   *)
(* stays an integer.                                                       *)
(***************************************************************************)
EXTENDS Integers, Sequences, FiniteSets, TLC

\* ------------------------------------------------------------------ bounds
\* Number of distinct identifiers the identifier generator can hand out.
MaxIds == 2
\* The model's counter of regex matches saturates here (the loop goes on).
MaxCount == 3
\* Number of upload and scan requests that can await a promise at the same time.
MaxInFlight == 1
\* The /mcp requests that can be suspended at an await at the same time.
MaxMcpRequests == 2

\* ----------------------------------------------------------------- strings
UpperChars == <<"A","B","C","D","E","F","G","H","I","J","K","L","M","N","O","P","Q","R","S","T","U","V","W","X","Y","Z">>
LowerChars == <<"a","b","c","d","e","f","g","h","i","j","k","l","m","n","o","p","q","r","s","t","u","v","w","x","y","z">>

\* String.prototype.toLowerCase, one character.
ToLowerChar(c) ==
  IF \E i \in 1..Len(UpperChars) : UpperChars[i] = c
  THEN LowerChars[CHOOSE i \in 1..Len(UpperChars) : UpperChars[i] = c]
  ELSE c

\* String.prototype.toLowerCase.
ToLowerCase(s) == [i \in 1..Len(s) |-> ToLowerChar(s[i])]

\* A line terminator: "." of a RegExp does not match it.
IsLineTerminator(c) == c = "\n"

\* White space in the sense of trim() and of the \s class.
IsSpace(c) == c \in {" ", "\t", "\n", "\r"}

\* String.prototype.trim.
Trim(s) ==
  LET kept == {i \in 1..Len(s) : ~IsSpace(s[i])}
  IN IF kept = {} THEN << >>
     ELSE SubSeq(s, CHOOSE i \in kept : \A j \in kept : i <= j,
                    CHOOSE i \in kept : \A j \in kept : i >= j)

\* String.prototype.includes.
Includes(s, sub) ==
  \E i \in 0..(Len(s) - Len(sub)) : SubSeq(s, i + 1, i + Len(sub)) = sub

\* String.prototype.split(/\s+/).
RECURSIVE SplitWhitespace(_)
SplitWhitespace(s) ==
  IF \A i \in 1..Len(s) : ~IsSpace(s[i]) THEN << s >>
  ELSE LET i == CHOOSE k \in 1..Len(s) :
                  IsSpace(s[k]) /\ \A j \in 1..(k - 1) : ~IsSpace(s[j])
           j == CHOOSE k \in (i + 1)..(Len(s) + 1) :
                  /\ \A m \in (i + 1)..(k - 1) : IsSpace(s[m])
                  /\ (k = Len(s) + 1 \/ ~IsSpace(s[k]))
       IN << SubSeq(s, 1, i - 1) >> \o SplitWhitespace(SubSeq(s, j, Len(s)))

\* An optional string (string | undefined).
Undefined == [some |-> FALSE, str |-> << >>]
Some(s) == [some |-> TRUE, str |-> s]

\* ------------------------------------------------------------------ RegExp
\* new RegExp(pattern, "g") for patterns over letters, digits, spaces and the
\* three pattern characters ".", "*" and "(" : a letter matches itself, "."
\* matches any character but a line terminator, "x*" is a greedy repetition,
\* and "(" opens a group that nothing in this alphabet can close.

\* The constructor throws SyntaxError: an unterminated group, or a "*" with
\* nothing to repeat.
RegExpThrows(pattern) ==
  \E i \in 1..Len(pattern) :
     \/ pattern[i] = "("
     \/ pattern[i] = "*" /\ (i = 1 \/ pattern[i - 1] = "*")

\* The compiled pattern: a sequence of atoms, each possibly starred.
RECURSIVE RegExpCompile(_)
RegExpCompile(pattern) ==
  IF pattern = << >> THEN << >>
  ELSE IF Len(pattern) >= 2 /\ pattern[2] = "*"
       THEN << [atom |-> pattern[1], star |-> TRUE] >>
              \o RegExpCompile(SubSeq(pattern, 3, Len(pattern)))
       ELSE << [atom |-> pattern[1], star |-> FALSE] >>
              \o RegExpCompile(Tail(pattern))

AtomMatches(atom, c) == IF atom = "." THEN ~IsLineTerminator(c) ELSE atom = c

\* The longest run of characters of s after position i that atom matches.
MaxRun(atom, s, i) ==
  CHOOSE n \in 0..(Len(s) - i) :
     /\ \A j \in 1..n : AtomMatches(atom, s[i + j])
     /\ (n = Len(s) - i \/ ~AtomMatches(atom, s[i + n + 1]))

\* Backtracking match of items[k..] against s from position i (the number of
\* characters before the match position): the end position, or -1.
RECURSIVE MatchFrom(_, _, _, _), MatchStar(_, _, _, _, _)
MatchFrom(items, k, s, i) ==
  IF k > Len(items) THEN i
  ELSE IF items[k].star
       THEN MatchStar(items, k, s, i, MaxRun(items[k].atom, s, i))
       ELSE IF i < Len(s) /\ AtomMatches(items[k].atom, s[i + 1])
            THEN MatchFrom(items, k + 1, s, i + 1)
            ELSE -1

\* Greedy repetition: try the longest run first, then give characters back.
MatchStar(items, k, s, i, n) ==
  LET r == MatchFrom(items, k + 1, s, i + n)
  IN IF r # -1 THEN r
     ELSE IF n = 0 THEN -1
     ELSE MatchStar(items, k, s, i, n - 1)

\* RegExp.prototype.exec of a global regex: the leftmost match starting at or
\* after lastIndex, or null.
NoMatch == [found |-> FALSE, index |-> 0, end |-> 0]
exec(items, s, lastIndex) ==
  LET starts == {i \in lastIndex..Len(s) : MatchFrom(items, 1, s, i) # -1}
  IN IF starts = {} THEN NoMatch
     ELSE LET i == CHOOSE x \in starts : \A y \in starts : x <= y
          IN [found |-> TRUE, index |-> i, end |-> MatchFrom(items, 1, s, i)]

\* --------------------------------------------------------------- documents
\* The parsed documents, source files and categories that callers pass to
\* addPolicy, and the queries and categories they pass to searchPolicies.

\* The "Encryption Standards" document of the search tests, with a content in
\* which "encryption" occurs twice.
EncryptionDoc ==
  [title |-> <<"E","n","c","r","y","p","t","i","o","n"," ","S","t","a","n","d","a","r","d","s">>,
   content |-> <<"e","n","c","r","y","p","t","i","o","n"," ","a","t"," ","r","e","s","t",","," ","e","n","c","r","y","p","t","i","o","n"," ","i","n"," ","t","r","a","n","s","i","t">>,
   sections |-> <<
     [heading |-> <<"1","."," ","P","u","r","p","o","s","e">>,
      content |-> <<"D","e","f","i","n","e"," ","e","n","c","r","y","p","t","i","o","n"," ","s","t","a","n","d","a","r","d","s"," ","f","o","r"," ","s","e","n","s","i","t","i","v","e"," ","d","a","t","a">>,
      level |-> 1],
     [heading |-> <<"2","."," ","S","c","o","p","e">>,
      content |-> <<"A","p","p","l","i","e","s"," ","t","o"," ","a","l","l"," ","s","y","s","t","e","m","s"," ","h","a","n","d","l","i","n","g"," ","c","u","s","t","o","m","e","r"," ","d","a","t","a">>,
      level |-> 1] >>,
   metadata |-> [effectiveDate |-> Some(<<"2","0","2","5","-","0","1","-","0","1">>), version |-> Some(<<"1",".","0">>)]]

\* title "Notes"; mentions encryption once, has no section
NotesDoc ==
  [title |-> <<"N","o","t","e","s">>,
   content |-> <<"s","e","e"," ","e","n","c","r","y","p","t","i","o","n">>,
   sections |-> << >>,
   metadata |-> [effectiveDate |-> Undefined, version |-> Undefined]]

\* title "a b c"; content "abc a.c"
AbcDoc ==
  [title |-> <<"a"," ","b"," ","c">>,
   content |-> <<"a","b","c"," ","a",".","c">>,
   sections |-> <<
     [heading |-> <<"A","b","c">>,
      content |-> <<"b","c","a"," ","a","b","c">>,
      level |-> 1],
     [heading |-> <<"S",".","2">>,
      content |-> <<"a",".","c">>,
      level |-> 2] >>,
   metadata |-> [effectiveDate |-> Undefined, version |-> Some(<<"2">>)]]

Sec == <<"S","e","c">>
Hr == <<"h","r">>

\* (parsedDoc, sourceFile, category) as passed to addPolicy.
AddInputs ==
  { [parsedDoc |-> EncryptionDoc, sourceFile |-> "encryption.pdf", category |-> Some(Sec)],
    [parsedDoc |-> NotesDoc, sourceFile |-> "notes.md", category |-> Undefined],
    [parsedDoc |-> AbcDoc, sourceFile |-> "abc.md", category |-> Some(Hr)] }

QEmpty == << >>
QShortTerms == <<"a"," ","b"," ","c">>
QEncryption == <<"e","n","c","r","y","p","t","i","o","n">>
QTwoTerms == <<" ","A","b","c"," "," ","b","c","a">>
QDot == <<"a",".","c">>
QGroup == <<"(","a","b">>
QStars == <<"a","*","b","*">>

Queries == {QEmpty, QShortTerms, QEncryption, QTwoTerms, QDot, QGroup, QStars}

\* "sec" matches the stored "Sec"; the empty string is a category too.
SearchCategories == {Undefined, Some(<<"s","e","c">>), Some(<< >>)}

\* The categories passed to listPolicies.
ListCategories == {Undefined, Some(<<"S","E","C">>), Some(<< >>)}

IDs == 1..MaxIds
\* What new Date() returns.
Times == {"2025-01-01T00:00:00Z"}

\* ------------------------------------------------------------------- state
VARIABLES
  policies,        \* PolicyStore.policies: the Map, as its entries in insertion order
  issued,          \* the identifiers randomUUID has handed out so far
  returned,        \* history: the ids that addPolicy calls have returned
  pc,              \* "idle", or "scoring" while searchPolicies runs
  call,            \* the operation being executed, or the last one executed
  ret,             \* what the last completed operation returned or threw
  idx,             \* searchPolicies: index of the candidate being scored
  results,         \* searchPolicies: the results of the candidates scored so far
  lastIndex,       \* scoreContentMatches: queryRegex.lastIndex
  contentMatches,  \* scoreContentMatches: contentMatches
  added,           \* history: the addPolicy calls since the last clear
  removed,         \* history: the removePolicy calls since then that returned true
  uploads,         \* index.ts: the upload and scan handlers suspended at an await
  request,         \* index.ts: the search request whose handler is running
  response,        \* index.ts: the response that the last step sent
  transports,      \* index.ts: the session ids that are keys of the registry `transports`
  mcpRequests      \* index.ts: the /mcp handlers suspended at an await

storeVars == << policies, issued, returned, pc, call, ret,
                idx, results, lastIndex, contentMatches, added, removed >>
apiVars == << uploads, request, response >>
mcpVars == << transports, mcpRequests >>
vars == << storeVars, apiVars, mcpVars >>

\* --------------------------------------------------------------------- Map
MapKeys(m) == {m[i].key : i \in 1..Len(m)}
MapHas(m, k) == k \in MapKeys(m)
MapGet(m, k) == m[CHOOSE i \in 1..Len(m) : m[i].key = k].value
\* Map.prototype.set: a new key is appended, an existing one keeps its place.
MapSet(m, k, v) ==
  IF MapHas(m, k)
  THEN [i \in 1..Len(m) |-> IF m[i].key = k THEN [key |-> k, value |-> v] ELSE m[i]]
  ELSE Append(m, [key |-> k, value |-> v])
\* Faulty variant: the entries inserted before k are deleted with it.
MapDeleteThrough(m, k) ==
  IF \E i \in 1..Len(m) : m[i].key = k
  THEN SubSeq(m, (CHOOSE i \in 1..Len(m) : m[i].key = k) + 1, Len(m))
  ELSE m
\* Map.prototype.delete.
MapDelete(m, k) == SelectSeq(m, LAMBDA e : e.key # k)
MapValues(m) == [i \in 1..Len(m) |-> m[i].value]

\* ------------------------------------------------------------- PolicyStore
Value(v) == [kind |-> "value", val |-> v]
Throws(e) == [kind |-> "throws", val |-> e]
NoValue == [kind |-> "none", val |-> << >>]

\* Faulty variant: the category passed to addPolicy is not stored.
addPolicyResultNoCategory(pols, uuid, input, now) ==
  LET policy == [id |-> uuid,
                 title |-> input.parsedDoc.title,
                 content |-> input.parsedDoc.content,
                 sourceFile |-> input.sourceFile,
                 category |-> Undefined,
                 effectiveDate |-> input.parsedDoc.metadata.effectiveDate,
                 version |-> input.parsedDoc.metadata.version,
                 sections |-> input.parsedDoc.sections,
                 extractedAt |-> now]
  IN [policies |-> MapSet(pols, uuid, policy), policy |-> policy]

\* Faulty variant: the id is the store's size plus one instead of a fresh UUID.
addPolicyResultSizeId(pols, uuid, input, now) ==
  LET id == Len(pols) + 1
      policy == [id |-> id,
                 title |-> input.parsedDoc.title,
                 content |-> input.parsedDoc.content,
                 sourceFile |-> input.sourceFile,
                 category |-> input.category,
                 effectiveDate |-> input.parsedDoc.metadata.effectiveDate,
                 version |-> input.parsedDoc.metadata.version,
                 sections |-> input.parsedDoc.sections,
                 extractedAt |-> now]
  IN [policies |-> MapSet(pols, id, policy), policy |-> policy]

\* addPolicy, given what randomUUID and new Date() returned: the new Map and
\* the policy returned.
addPolicyResult(pols, uuid, input, now) ==
  LET policy == [id |-> uuid,
                 title |-> input.parsedDoc.title,
                 content |-> input.parsedDoc.content,
                 sourceFile |-> input.sourceFile,
                 category |-> input.category,
                 effectiveDate |-> input.parsedDoc.metadata.effectiveDate,
                 version |-> input.parsedDoc.metadata.version,
                 sections |-> input.parsedDoc.sections,
                 extractedAt |-> now]
  IN [policies |-> MapSet(pols, uuid, policy), policy |-> policy]

getAllPolicies(pols) == MapValues(pols)

\* Faulty variant: the category is ignored.
filterPoliciesByCategoryNone(pols, category) == getAllPolicies(pols)

filterPoliciesByCategory(pols, category) ==
  IF ~category.some \/ category.str = << >>
  THEN getAllPolicies(pols)
  ELSE SelectSeq(getAllPolicies(pols),
                 LAMBDA p : /\ p.category.some
                            /\ ToLowerCase(p.category.str) = ToLowerCase(category.str))

\* Faulty variant: the categories are compared case-sensitively.
listPoliciesResultCaseSensitive(pols, category) ==
  LET all == getAllPolicies(pols)
      filtered == IF category.some /\ category.str # << >>
                  THEN SelectSeq(all, LAMBDA p : /\ p.category.some
                                                 /\ p.category.str = category.str)
                  ELSE all
  IN [i \in 1..Len(filtered) |->
        [id |-> filtered[i].id,
         title |-> filtered[i].title,
         sourceFile |-> filtered[i].sourceFile,
         category |-> filtered[i].category,
         sectionCount |-> Len(filtered[i].sections),
         extractedAt |-> filtered[i].extractedAt]]

\* What listPolicies returns: the summaries of the (filtered) policies.
listPoliciesResult(pols, category) ==
  LET all == getAllPolicies(pols)
      filtered == IF category.some /\ category.str # << >>
                  THEN SelectSeq(all, LAMBDA p :
                         /\ p.category.some
                         /\ ToLowerCase(p.category.str) = ToLowerCase(category.str))
                  ELSE all
  IN [i \in 1..Len(filtered) |->
        [id |-> filtered[i].id,
         title |-> filtered[i].title,
         sourceFile |-> filtered[i].sourceFile,
         category |-> filtered[i].category,
         sectionCount |-> Len(filtered[i].sections),
         extractedAt |-> filtered[i].extractedAt]]

\* The count getter.
countResult(pols) == Len(pols)

\* The length test of the query terms.
isQueryTerm(t) == Len(t) > 2

queryLowerOf(query) == Trim(ToLowerCase(query))
queryTermsOf(query) == SelectSeq(SplitWhitespace(queryLowerOf(query)), isQueryTerm)

\* Faulty variant: only the empty query returns early.
isEmptyQueryNoTermCheck(queryLower, queryTerms) == queryLower = << >>

\* The early return of searchPolicies.
isEmptyQuery(queryLower, queryTerms) == queryLower = << >> \/ Len(queryTerms) = 0

scoreSectionMatch(section, queryTerms) ==
  LET sectionText == ToLowerCase(section.heading \o << " " >> \o section.content)
  IN Cardinality({i \in 1..Len(queryTerms) : Includes(sectionText, queryTerms[i])})

RECURSIVE SumSeq(_)
SumSeq(s) == IF s = << >> THEN 0 ELSE Head(s) + SumSeq(Tail(s))

\* Faulty variant: the content contribution is left out.
scorePolicyNoContent(policy, queryLower, queryTerms, matches) ==
  LET titleScore == IF Includes(ToLowerCase(policy.title), queryLower)
                    THEN 2 * 10 ELSE 0
      matched == SelectSeq(policy.sections,
                           LAMBDA s : scoreSectionMatch(s, queryTerms) > 0)
      sectionScores == [i \in 1..Len(matched) |->
                          2 * scoreSectionMatch(matched[i], queryTerms)]
  IN [policy |-> policy,
      matchedSections |-> [i \in 1..Len(matched) |-> matched[i].heading],
      relevanceScore |-> titleScore + SumSeq(sectionScores)]

\* Faulty variant: the heading is pushed once per matching term.
scorePolicyHeadingPerTerm(policy, queryLower, queryTerms, matches) ==
  LET titleScore == IF Includes(ToLowerCase(policy.title), queryLower)
                    THEN 2 * 10 ELSE 0
      sectionScores == [i \in 1..Len(policy.sections) |->
                          2 * scoreSectionMatch(policy.sections[i], queryTerms)]
      RECURSIVE headings(_)
      headings(sections) ==
        IF sections = << >> THEN << >>
        ELSE [i \in 1..scoreSectionMatch(Head(sections), queryTerms) |->
                Head(sections).heading] \o headings(Tail(sections))
  IN [policy |-> policy,
      matchedSections |-> headings(policy.sections),
      relevanceScore |-> titleScore + SumSeq(sectionScores) + matches]

\* scorePolicy, given the count that the loop of scoreContentMatches reached.
\* In half points: the title adds 10, a section term 1, a content match 0.5.
scorePolicy(policy, queryLower, queryTerms, matches) ==
  LET titleScore == IF Includes(ToLowerCase(policy.title), queryLower)
                    THEN 2 * 10 ELSE 0
      matched == SelectSeq(policy.sections,
                           LAMBDA s : scoreSectionMatch(s, queryTerms) > 0)
      sectionScores == [i \in 1..Len(matched) |->
                          2 * scoreSectionMatch(matched[i], queryTerms)]
  IN [policy |-> policy,
      matchedSections |-> [i \in 1..Len(matched) |-> matched[i].heading],
      relevanceScore |-> titleScore + SumSeq(sectionScores) + matches]

\* Faulty variant: results of score 0 are kept.
isRelevantOrZero(result) == result.relevanceScore >= 0

\* The filter of searchPolicies.
isRelevant(result) == result.relevanceScore > 0

\* Faulty variant: ascending order.
compareRelevanceAscending(a, b) == a.relevanceScore - b.relevanceScore

\* The comparator of the sort of searchPolicies.
compareRelevance(a, b) == b.relevanceScore - a.relevanceScore

\* Array.prototype.sort (stable) with compareRelevance.
RECURSIVE insertSorted(_, _)
insertSorted(r, sorted) ==
  IF sorted = << >> THEN << r >>
  ELSE IF compareRelevance(r, Head(sorted)) <= 0 THEN << r >> \o sorted
  ELSE << Head(sorted) >> \o insertSorted(r, Tail(sorted))

RECURSIVE sortResults(_)
sortResults(rs) ==
  IF rs = << >> THEN << >> ELSE insertSorted(Head(rs), sortResults(Tail(rs)))

\* ----------------------------------------------------------------- actions
\* The places for handlers suspended at an await.
Slots == 1..MaxInFlight
McpSlots == 1..MaxMcpRequests
Free == [stage |-> "free"]
\* No search handler is running; the step sent no response.
NoRequest == [op |-> "none"]
NoResponse == [to |-> NoRequest]

Idle == pc = "idle"

SearchLocalsReset ==
  idx' = 0 /\ results' = << >> /\ lastIndex' = 0 /\ contentMatches' = 0

Init ==
  /\ policies = << >>
  /\ issued = {}
  /\ returned = {}
  /\ pc = "idle"
  /\ call = [name |-> "new"]
  /\ ret = NoValue
  /\ idx = 0 /\ results = << >> /\ lastIndex = 0 /\ contentMatches = 0
  /\ added = 0 /\ removed = 0
  /\ uploads = [slot \in Slots |-> Free]
  /\ request = NoRequest
  /\ response = NoResponse
  /\ transports = {}
  /\ mcpRequests = [slot \in McpSlots |-> Free]

addPolicy(input, uuid, now) ==
  /\ Idle
  /\ uuid \notin issued
  /\ LET r == addPolicyResult(policies, uuid, input, now)
     IN /\ policies' = r.policies
        /\ ret' = Value(r.policy)
        /\ returned' = returned \cup {r.policy.id}
  /\ issued' = issued \cup {uuid}
  /\ call' = [name |-> "addPolicy", input |-> input]
  /\ UNCHANGED << pc, idx, results, lastIndex, contentMatches >>

getPolicy(id) ==
  /\ Idle
  /\ call' = [name |-> "getPolicy", id |-> id,
              justAdded |-> (call.name = "addPolicy" /\ ret.val.id = id)]
  /\ ret' = IF MapHas(policies, id)
            THEN Value([found |-> TRUE, policy |-> MapGet(policies, id)])
            ELSE Value([found |-> FALSE])
  /\ UNCHANGED << policies, issued, returned, pc, idx, results, lastIndex, contentMatches >>

\* Faulty variant: true is returned whether or not the id was stored.
removePolicyAlwaysTrue(id) ==
  /\ Idle
  /\ call' = [name |-> "removePolicy", id |-> id]
  /\ ret' = Value(TRUE)
  /\ policies' = MapDelete(policies, id)
  /\ UNCHANGED << issued, returned, pc, idx, results, lastIndex, contentMatches >>

\* Faulty variant: the result is right but the entry stays in the Map.
removePolicyNoDelete(id) ==
  /\ Idle
  /\ call' = [name |-> "removePolicy", id |-> id]
  /\ ret' = Value(MapHas(policies, id))
  /\ UNCHANGED << policies, issued, returned, pc, idx, results, lastIndex, contentMatches >>

removePolicy(id) ==
  /\ Idle
  /\ call' = [name |-> "removePolicy", id |-> id]
  /\ ret' = Value(MapHas(policies, id))
  /\ policies' = MapDelete(policies, id)
  /\ UNCHANGED << issued, returned, pc, idx, results, lastIndex, contentMatches >>

\* Faulty variant: only the oldest entry is dropped.
clearOldest ==
  /\ Idle
  /\ call' = [name |-> "clear", sizeBefore |-> Len(policies)]
  /\ ret' = NoValue
  /\ policies' = IF policies = << >> THEN << >> ELSE Tail(policies)
  /\ UNCHANGED << issued, returned, pc, idx, results, lastIndex, contentMatches >>

\* clear(), with the size the Map had when it was called kept in the call record.
clear ==
  /\ Idle
  /\ call' = [name |-> "clear", sizeBefore |-> Len(policies)]
  /\ ret' = NoValue
  /\ policies' = << >>
  /\ UNCHANGED << issued, returned, pc, idx, results, lastIndex, contentMatches >>

\* Faulty variant: the store hands out the array it keeps its values in.
getAllPoliciesCallInternalArray ==
  /\ Idle
  /\ call' = [name |-> "getAllPolicies", array |-> "internal"]
  /\ ret' = Value(getAllPolicies(policies))
  /\ UNCHANGED << policies, issued, returned, pc, idx, results, lastIndex, contentMatches >>

\* Array.from builds a new array on every call; `array` records which array
\* object the caller holds.
getAllPoliciesCall ==
  /\ Idle
  /\ call' = [name |-> "getAllPolicies", array |-> "new"]
  /\ ret' = Value(getAllPolicies(policies))
  /\ UNCHANGED << policies, issued, returned, pc, idx, results, lastIndex, contentMatches >>

\* What a caller can do to the elements of an array: push, pop, reverse.
ArrayEdits == {"push", "pop", "reverse"}

Reverse(a) == [i \in 1..Len(a) |-> a[Len(a) + 1 - i]]

EditArray(a, edit) ==
  CASE edit = "push" -> Append(a, a[1])
    [] edit = "pop" -> SubSeq(a, 1, Len(a) - 1)
    [] edit = "reverse" -> Reverse(a)

\* The caller of getAllPolicies edits the array it was given.  An edit of an
\* array that the store itself holds is an edit of the store.
editReturnedArray(edit) ==
  /\ Idle
  /\ call.name = "getAllPolicies"
  /\ ret.val # << >>
  /\ call' = [name |-> "editReturnedArray", edit |-> edit, array |-> call.array]
  /\ ret' = Value(EditArray(ret.val, edit))
  /\ policies' = IF call.array = "new" THEN policies
                 ELSE [i \in 1..Len(ret'.val) |->
                         [key |-> ret'.val[i].id, value |-> ret'.val[i]]]
  /\ UNCHANGED << issued, returned, pc, idx, results, lastIndex, contentMatches >>

\* Faulty variant: the filter is applied to the store itself.
listPoliciesInPlace(category) ==
  /\ Idle
  /\ call' = [name |-> "listPolicies", category |-> category]
  /\ ret' = Value(listPoliciesResult(policies, category))
  /\ policies' = SelectSeq(policies, LAMBDA e :
                     \E i \in 1..Len(ret'.val) : ret'.val[i].id = e.value.id)
  /\ UNCHANGED << issued, returned, pc, idx, results, lastIndex, contentMatches >>

listPolicies(category) ==
  /\ Idle
  /\ call' = [name |-> "listPolicies", category |-> category]
  /\ ret' = Value(listPoliciesResult(policies, category))
  /\ UNCHANGED << policies, issued, returned, pc, idx, results, lastIndex, contentMatches >>

count ==
  /\ Idle
  /\ call' = [name |-> "count"]
  /\ ret' = Value(countResult(policies))
  /\ UNCHANGED << policies, issued, returned, pc, idx, results, lastIndex, contentMatches >>

\* searchPolicies up to the first call of scoreContentMatches.
searchPolicies(query, category) ==
  /\ Idle
  /\ call' = [name |-> "searchPolicies", query |-> query, category |-> category]
  /\ LET queryLower == queryLowerOf(query)
         queryTerms == queryTermsOf(query)
         candidates == filterPoliciesByCategory(policies, category)
     IN IF isEmptyQuery(queryLower, queryTerms) \/ candidates = << >>
        THEN /\ ret' = Value(<< >>)
             /\ UNCHANGED << pc, idx, results, lastIndex, contentMatches >>
        ELSE IF RegExpThrows(queryLower)
        THEN /\ ret' = Throws("SyntaxError")
             /\ UNCHANGED << pc, idx, results, lastIndex, contentMatches >>
        ELSE /\ pc' = "scoring"
             /\ idx' = 1
             /\ UNCHANGED << ret, results, lastIndex, contentMatches >>
  /\ UNCHANGED << policies, issued, returned >>

\* What queryRegex.exec(contentLower) returns for the candidate being scored.
currentMatch ==
  LET candidates == filterPoliciesByCategory(policies, call.category)
  IN exec(RegExpCompile(queryLowerOf(call.query)),
          ToLowerCase(candidates[idx].content), lastIndex)

\* One iteration of the while loop of scoreContentMatches.
scoreContentMatchesLoop ==
  /\ pc = "scoring"
  /\ currentMatch.found
  /\ contentMatches' = IF contentMatches < MaxCount THEN contentMatches + 1
                       ELSE contentMatches
  /\ lastIndex' = currentMatch.end
  /\ UNCHANGED << policies, issued, returned, pc, call, ret, idx, results >>

\* exec returned null: scoreContentMatches and scorePolicy return, and
\* searchPolicies scores the next candidate or filters, sorts and returns.
scorePolicyReturn ==
  /\ pc = "scoring"
  /\ ~currentMatch.found
  /\ LET candidates == filterPoliciesByCategory(policies, call.category)
         scored == Append(results,
                          scorePolicy(candidates[idx], queryLowerOf(call.query),
                                      queryTermsOf(call.query), contentMatches))
     IN IF idx < Len(candidates)
        THEN /\ idx' = idx + 1
             /\ results' = scored
             /\ lastIndex' = 0
             /\ contentMatches' = 0
             /\ UNCHANGED << pc, ret >>
        ELSE /\ ret' = Value(sortResults(SelectSeq(scored, isRelevant)))
             /\ pc' = "idle"
             /\ SearchLocalsReset
  /\ UNCHANGED << policies, issued, returned, call >>

\* randomUUID: an identifier never handed out before.  Identifiers are only
\* ever compared for equality, so which unused one it is makes no difference:
\* the first unused one stands for all of them.
FreshIds ==
  IF issued = IDs THEN {}
  ELSE {CHOOSE u \in IDs \ issued : \A v \in IDs \ issued : u <= v}

\* The PolicyStore driven by its callers, one call at a time; each disjunct
\* also keeps the history of adds and successful removes since the last clear.
Next ==
  \/ /\ \E input \in AddInputs, uuid \in FreshIds, now \in Times : addPolicy(input, uuid, now)
     /\ added' = added + 1 /\ removed' = removed
     /\ UNCHANGED << apiVars, mcpVars >>
  \/ /\ \E id \in IDs : getPolicy(id)
     /\ UNCHANGED << added, removed, uploads, request, response, mcpVars >>
  \/ /\ \E id \in IDs : removePolicy(id)
     /\ added' = added
     /\ removed' = IF ret'.val THEN removed + 1 ELSE removed
     /\ UNCHANGED << apiVars, mcpVars >>
  \/ /\ clear
     /\ added' = 0 /\ removed' = 0
     /\ UNCHANGED << apiVars, mcpVars >>
  \/ /\ getAllPoliciesCall
     /\ UNCHANGED << added, removed, uploads, request, response, mcpVars >>
  \/ /\ \E edit \in ArrayEdits : editReturnedArray(edit)
     /\ UNCHANGED << added, removed, uploads, request, response, mcpVars >>
  \/ /\ \E category \in ListCategories : listPolicies(category)
     /\ UNCHANGED << added, removed, uploads, request, response, mcpVars >>
  \/ /\ count
     /\ UNCHANGED << added, removed, uploads, request, response, mcpVars >>
  \/ /\ \E query \in Queries, category \in SearchCategories : searchPolicies(query, category)
     /\ UNCHANGED << added, removed, uploads, request, response, mcpVars >>
  \/ /\ scoreContentMatchesLoop
     /\ UNCHANGED << added, removed, uploads, request, response, mcpVars >>
  \/ /\ scorePolicyReturn
     /\ UNCHANGED << added, removed, uploads, request, response, mcpVars >>

Spec == Init /\ [][Next]_vars

\* ---------------------------------------------------------------- index.ts
\* The endpoints and tools of index.ts on top of the one policyStore.  A
\* handler runs without interruption up to its next await; the handlers of
\* other requests run while it is suspended there.

\* req.query.query of GET /api/search: missing, empty, or a text.
RestQueries == {Undefined, Some(QEmpty), Some(QShortTerms), Some(QEncryption)}
\* The query of search_policies: a string, as its input schema demands.
ToolQueries == {Some(QEmpty), Some(QShortTerms), Some(QEncryption)}
\* The category of GET /api/policies.
ApiCategories == {Undefined, Some(<<"H","R">>)}
\* The category of GET /api/search and search_policies.
ApiSearchCategories == {Undefined}
\* The files uploaded or scanned, with what parseDocument makes of them.
ApiInputs == {input \in AddInputs : input.parsedDoc \in {NotesDoc, AbcDoc}}

\* The place a newly suspended handler takes: the first free one.
FreeSlots ==
  IF \A slot \in Slots : uploads[slot] # Free THEN {}
  ELSE {CHOOSE slot \in Slots :
          uploads[slot] = Free /\ \A other \in Slots : uploads[other] = Free => slot <= other}

\* A step of a handler that makes no call of the policyStore.
NoStoreCall ==
  /\ call' = [name |-> "none"]
  /\ ret' = NoValue
  /\ UNCHANGED << policies, issued, returned, pc, idx, results, lastIndex,
                  contentMatches, added, removed >>

\* What the search handlers answer once searchPolicies has returned or thrown.
SearchResponse(req, r) ==
  IF r.kind = "throws" THEN [to |-> req, threw |-> r.val]
  ELSE IF req.op = "GET /api/search"
  THEN [to |-> req, status |-> 200,
        body |-> [query |-> req.query.str,
                  total |-> Len(r.val),
                  results |-> [i \in 1..Len(r.val) |->
                                 [id |-> r.val[i].policy.id,
                                  title |-> r.val[i].policy.title,
                                  category |-> r.val[i].policy.category,
                                  matchedSections |-> r.val[i].matchedSections,
                                  relevanceScore |-> r.val[i].relevanceScore]]]]
  ELSE IF Len(r.val) = 0
  THEN [to |-> req, isError |-> FALSE, text |-> "No policies found matching"]
  ELSE [to |-> req, isError |-> FALSE,
        text |-> [query |-> req.query.str,
                  resultsCount |-> Len(r.val),
                  results |-> [i \in 1..Len(r.val) |->
                                 [policyId |-> r.val[i].policy.id,
                                  title |-> r.val[i].policy.title,
                                  category |-> r.val[i].policy.category,
                                  relevanceScore |-> r.val[i].relevanceScore,
                                  matchedSections |-> r.val[i].matchedSections,
                                  excerpt |-> r.val[i].policy.content]]]]

\* POST /api/policies without a file.
postApiPoliciesNoFile ==
  /\ Idle
  /\ response' = [to |-> [op |-> "POST /api/policies"], status |-> 400,
                  body |-> [error |-> "No file uploaded"]]
  /\ NoStoreCall
  /\ UNCHANGED << uploads, request >>

\* POST /api/policies with a file, up to `await parseDocument`.
postApiPolicies(slot, input) ==
  /\ Idle
  /\ uploads[slot] = Free
  /\ uploads' = [uploads EXCEPT ![slot] =
                   [stage |-> "parsing", op |-> "POST /api/policies", input |-> input]]
  /\ response' = NoResponse
  /\ NoStoreCall
  /\ UNCHANGED << request >>

\* Faulty variant: the document is stored without its sections, which are to
\* be attached after the next await.
uploadParsedSectionsLater(slot, uuid, now) ==
  /\ Idle
  /\ uuid \notin issued
  /\ uploads[slot].stage = "parsing"
  /\ uploads[slot].op = "POST /api/policies"
  /\ LET r == addPolicyResult(policies, uuid, uploads[slot].input, now)
     IN /\ policies' = MapSet(policies, uuid, [r.policy EXCEPT !.sections = << >>])
        /\ ret' = Value(r.policy)
        /\ returned' = returned \cup {uuid}
  /\ issued' = issued \cup {uuid}
  /\ call' = [name |-> "addPolicy", input |-> uploads[slot].input]
  /\ added' = added + 1
  /\ uploads' = [uploads EXCEPT ![slot] = [stage |-> "unlinking", policy |-> ret'.val]]
  /\ response' = NoResponse
  /\ UNCHANGED << pc, idx, results, lastIndex, contentMatches, removed, request >>

\* POST /api/policies: parseDocument resolved; addPolicy, up to `await unlink`.
uploadParsed(slot, uuid, now) ==
  /\ uploads[slot].stage = "parsing"
  /\ uploads[slot].op = "POST /api/policies"
  /\ addPolicy(uploads[slot].input, uuid, now)
  /\ added' = added + 1
  /\ uploads' = [uploads EXCEPT ![slot] = [stage |-> "unlinking", policy |-> ret'.val]]
  /\ response' = NoResponse
  /\ UNCHANGED << removed, request >>

\* POST /api/policies: parseDocument rejected; the catch block, up to its
\* `await unlink`.
uploadParseFailed(slot) ==
  /\ Idle
  /\ uploads[slot].stage = "parsing"
  /\ uploads[slot].op = "POST /api/policies"
  /\ uploads' = [uploads EXCEPT ![slot] = [stage |-> "cleanup", error |-> "parse error"]]
  /\ response' = NoResponse
  /\ NoStoreCall
  /\ UNCHANGED << request >>

\* POST /api/policies: unlink resolved; the success response.
uploadUnlinked(slot) ==
  /\ Idle
  /\ uploads[slot].stage = "unlinking"
  /\ uploads' = [uploads EXCEPT ![slot] = Free]
  /\ LET policy == uploads[slot].policy
     IN response' = [to |-> [op |-> "POST /api/policies"], status |-> 200,
                     body |-> [success |-> TRUE,
                               policy |-> [id |-> policy.id,
                                           title |-> policy.title,
                                           sourceFile |-> policy.sourceFile,
                                           category |-> policy.category,
                                           sectionCount |-> Len(policy.sections),
                                           effectiveDate |-> policy.effectiveDate,
                                           version |-> policy.version]]]
  /\ NoStoreCall
  /\ UNCHANGED << request >>

\* POST /api/policies: unlink rejected after addPolicy; the catch block, up
\* to its `await unlink`. The place keeps, as history, the document that the
\* request has stored.
uploadUnlinkFailed(slot) ==
  /\ Idle
  /\ uploads[slot].stage = "unlinking"
  /\ uploads' = [uploads EXCEPT ![slot] = [stage |-> "cleanup", error |-> "unlink error",
                                          policy |-> uploads[slot].policy]]
  /\ response' = NoResponse
  /\ NoStoreCall
  /\ UNCHANGED << request >>

\* POST /api/policies: the unlink of the catch block settled; the 500 response.
uploadCleanedUp(slot) ==
  /\ Idle
  /\ uploads[slot].stage = "cleanup"
  /\ uploads' = [uploads EXCEPT ![slot] = Free]
  /\ response' = [to |-> [op |-> "POST /api/policies"], status |-> 500,
                  body |-> [error |-> uploads[slot].error]]
  /\ NoStoreCall
  /\ UNCHANGED << request >>

\* scan_document of a path at which no file exists.
scanDocumentNotFound ==
  /\ Idle
  /\ response' = [to |-> [op |-> "scan_document"], isError |-> TRUE,
                  text |-> "Error: File not found"]
  /\ NoStoreCall
  /\ UNCHANGED << uploads, request >>

\* scan_document of an existing file, up to `await parseDocument`.
scanDocument(slot, input) ==
  /\ Idle
  /\ uploads[slot] = Free
  /\ uploads' = [uploads EXCEPT ![slot] =
                   [stage |-> "parsing", op |-> "scan_document", input |-> input]]
  /\ response' = NoResponse
  /\ NoStoreCall
  /\ UNCHANGED << request >>

\* scan_document: parseDocument resolved; addPolicy and the success result.
scanParsed(slot, uuid, now) ==
  /\ uploads[slot].stage = "parsing"
  /\ uploads[slot].op = "scan_document"
  /\ addPolicy(uploads[slot].input, uuid, now)
  /\ added' = added + 1
  /\ uploads' = [uploads EXCEPT ![slot] = Free]
  /\ response' = [to |-> [op |-> "scan_document"], isError |-> FALSE,
                  text |-> [success |-> TRUE,
                            policyId |-> ret'.val.id,
                            title |-> ret'.val.title,
                            sectionsFound |-> Len(ret'.val.sections),
                            effectiveDate |-> ret'.val.effectiveDate,
                            version |-> ret'.val.version]]
  /\ UNCHANGED << removed, request >>

\* scan_document: getMimeTypeFromExtension threw or parseDocument rejected.
scanParseFailed(slot) ==
  /\ Idle
  /\ uploads[slot].stage = "parsing"
  /\ uploads[slot].op = "scan_document"
  /\ uploads' = [uploads EXCEPT ![slot] = Free]
  /\ response' = [to |-> [op |-> "scan_document"], isError |-> TRUE,
                  text |-> "Error parsing document"]
  /\ NoStoreCall
  /\ UNCHANGED << request >>

\* GET /api/policies/:id
getApiPolicy(id) ==
  /\ getPolicy(id)
  /\ response' = IF ret'.val.found
                 THEN [to |-> [op |-> "GET /api/policies/:id"], status |-> 200,
                       body |-> ret'.val.policy]
                 ELSE [to |-> [op |-> "GET /api/policies/:id"], status |-> 404,
                       body |-> [error |-> "Policy not found"]]
  /\ UNCHANGED << added, removed, uploads, request >>

\* DELETE /api/policies/:id
deleteApiPolicy(id) ==
  /\ removePolicy(id)
  /\ removed' = IF ret'.val THEN removed + 1 ELSE removed
  /\ response' = IF ret'.val
                 THEN [to |-> [op |-> "DELETE /api/policies/:id"], status |-> 200,
                       body |-> [success |-> TRUE]]
                 ELSE [to |-> [op |-> "DELETE /api/policies/:id"], status |-> 404,
                       body |-> [error |-> "Policy not found"]]
  /\ UNCHANGED << added, uploads, request >>

\* GET /api/policies
getApiPolicies(category) ==
  /\ listPolicies(category)
  /\ response' = [to |-> [op |-> "GET /api/policies"], status |-> 200,
                  body |-> [total |-> Len(ret'.val), policies |-> ret'.val]]
  /\ UNCHANGED << added, removed, uploads, request >>

\* A search handler from its call of searchPolicies on: the response is sent
\* once searchPolicies has returned or thrown.
searchHandlerCalls(req) ==
  /\ searchPolicies(req.query.str, req.category)
  /\ IF pc' = "idle"
     THEN response' = SearchResponse(req, ret') /\ request' = NoRequest
     ELSE response' = NoResponse /\ request' = req
  /\ UNCHANGED << added, removed, uploads >>

\* Faulty variant: only a missing query is refused.
getApiSearchMissingOnly(query, category) ==
  LET req == [op |-> "GET /api/search", query |-> query, category |-> category]
  IN IF ~query.some
     THEN /\ Idle
          /\ response' = [to |-> req, status |-> 400,
                          body |-> [error |-> "Query parameter required"]]
          /\ NoStoreCall
          /\ UNCHANGED << uploads, request >>
     ELSE searchHandlerCalls(req)

\* GET /api/search, up to the first call of scoreContentMatches.
getApiSearch(query, category) ==
  LET req == [op |-> "GET /api/search", query |-> query, category |-> category]
  IN IF ~query.some \/ query.str = << >>
     THEN /\ Idle
          /\ response' = [to |-> req, status |-> 400,
                          body |-> [error |-> "Query parameter required"]]
          /\ NoStoreCall
          /\ UNCHANGED << uploads, request >>
     ELSE searchHandlerCalls(req)

\* search_policies, up to the first call of scoreContentMatches.
searchPoliciesTool(query, category) ==
  LET req == [op |-> "search_policies", query |-> query, category |-> category]
  IN IF query.str = << >>
     THEN /\ Idle
          /\ response' = [to |-> req, isError |-> TRUE,
                          text |-> "Error: Query is required"]
          /\ NoStoreCall
          /\ UNCHANGED << uploads, request >>
     ELSE searchHandlerCalls(req)

\* The search handlers while searchPolicies is counting.
searchCounts ==
  /\ scoreContentMatchesLoop
  /\ UNCHANGED << added, removed, apiVars >>

\* The search handlers when searchPolicies has scored a candidate.
searchScores ==
  /\ scorePolicyReturn
  /\ IF pc' = "idle"
     THEN response' = SearchResponse(request, ret') /\ request' = NoRequest
     ELSE UNCHANGED << request, response >>
  /\ UNCHANGED << added, removed, uploads >>

ApiNext ==
  \/ /\ postApiPoliciesNoFile
     /\ UNCHANGED mcpVars
  \/ /\ \E slot \in FreeSlots, input \in ApiInputs : postApiPolicies(slot, input)
     /\ UNCHANGED mcpVars
  \/ /\ \E slot \in Slots, uuid \in FreshIds, now \in Times : uploadParsed(slot, uuid, now)
     /\ UNCHANGED mcpVars
  \/ /\ \E slot \in Slots : uploadParseFailed(slot)
     /\ UNCHANGED mcpVars
  \/ /\ \E slot \in Slots : uploadUnlinked(slot)
     /\ UNCHANGED mcpVars
  \/ /\ \E slot \in Slots : uploadUnlinkFailed(slot)
     /\ UNCHANGED mcpVars
  \/ /\ \E slot \in Slots : uploadCleanedUp(slot)
     /\ UNCHANGED mcpVars
  \/ /\ scanDocumentNotFound
     /\ UNCHANGED mcpVars
  \/ /\ \E slot \in FreeSlots, input \in ApiInputs : scanDocument(slot, input)
     /\ UNCHANGED mcpVars
  \/ /\ \E slot \in Slots, uuid \in FreshIds, now \in Times : scanParsed(slot, uuid, now)
     /\ UNCHANGED mcpVars
  \/ /\ \E slot \in Slots : scanParseFailed(slot)
     /\ UNCHANGED mcpVars
  \/ /\ \E id \in IDs : getApiPolicy(id)
     /\ UNCHANGED mcpVars
  \/ /\ \E id \in IDs : deleteApiPolicy(id)
     /\ UNCHANGED mcpVars
  \/ /\ \E category \in ApiCategories : getApiPolicies(category)
     /\ UNCHANGED mcpVars
  \/ /\ \E query \in RestQueries, category \in ApiSearchCategories : getApiSearch(query, category)
     /\ UNCHANGED mcpVars
  \/ /\ \E query \in ToolQueries, category \in ApiSearchCategories : searchPoliciesTool(query, category)
     /\ UNCHANGED mcpVars
  \/ /\ searchCounts
     /\ UNCHANGED mcpVars
  \/ /\ searchScores
     /\ UNCHANGED mcpVars

ApiSpec == Init /\ [][ApiNext]_vars


\* ------------------------------------------------------ /mcp (index.ts)
\* The Streamable HTTP endpoints and their registry of transports. The
\* registry is a plain object: `transports[key]` finds the object's own keys
\* and the properties every object inherits from Object.prototype. A transport
\* is known by its sessionId, which is undefined until the transport has
\* initialised its session. StreamableHTTPServerTransport is the SDK's: of it
\* the model keeps the calls of the two callbacks the handler gives it, at any
\* moment the handler leaves to it.

\* The string that randomUUID returns for the identifier `uuid`.
UuidChars == <<"1", "2", "3", "4", "5", "6", "7", "8", "9">>
UuidString(uuid) == <<"u", "u", "i", "d", "-", UuidChars[uuid]>>
\* A property name that every object inherits.
ObjectPrototypeKeys == { <<"c","o","n","s","t","r","u","c","t","o","r">> }
\* req.headers["mcp-session-id"]: no header, an empty one, an identifier a
\* generator can return (of a session or of none), an inherited property name.
McpSessionIds ==
  {Undefined, Some(<< >>)} \cup { Some(UuidString(uuid)) : uuid \in IDs }
    \cup { Some(key) : key \in ObjectPrototypeKeys }

NoTransport == [kind |-> "undefined"]
Transport(sessionId) == [kind |-> "transport", sessionId |-> sessionId]
InheritedProperty(key) == [kind |-> "inherited", key |-> key]

\* transports[key]
transportsGet(registry, key) ==
  IF key \in registry THEN Transport(Some(key))
  ELSE IF key \in ObjectPrototypeKeys THEN InheritedProperty(key)
  ELSE NoTransport

\* sessionId && transports[sessionId]
sessionTransport(registry, sessionId) ==
  IF sessionId.some /\ sessionId.str # << >> THEN transportsGet(registry, sessionId.str)
  ELSE NoTransport

\* Object.keys(transports).length
activeSessions(registry) == Cardinality(registry)

FreeMcpSlots ==
  IF \A slot \in McpSlots : mcpRequests[slot] # Free THEN {}
  ELSE {CHOOSE slot \in McpSlots :
          mcpRequests[slot] = Free
          /\ \A other \in McpSlots : mcpRequests[other] = Free => slot <= other}

\* A step of a /mcp handler or of a transport: no call of the policyStore.
McpStep(name, sessionId) ==
  /\ Idle
  /\ call' = [name |-> name, sessionId |-> sessionId]
  /\ ret' = NoValue
  /\ UNCHANGED << policies, returned, pc, idx, results, lastIndex, contentMatches,
                  added, removed, uploads, request >>

\* `await transport.handleRequest(req, res)`, up to the await. What the
\* registry gave for an inherited property name is no transport and has no
\* handleRequest: the call throws TypeError and the handler ends without
\* having sent anything.
handleRequestCall(slot, req, transport) ==
  IF transport.kind = "transport"
  THEN /\ mcpRequests' = [mcpRequests EXCEPT ![slot] =
                            [stage |-> "handling", req |-> req, transport |-> transport]]
       /\ response' = NoResponse
  ELSE /\ mcpRequests' = [mcpRequests EXCEPT ![slot] = Free]
       /\ response' = [to |-> req, threw |-> "TypeError"]

\* POST /mcp, up to its first await.
postMcp(slot, sessionId) ==
  /\ mcpRequests[slot] = Free
  /\ McpStep("POST /mcp", sessionId)
  /\ IF sessionTransport(transports, sessionId) # NoTransport
     THEN handleRequestCall(slot, [op |-> "POST /mcp", sessionId |-> sessionId],
                            sessionTransport(transports, sessionId))
     ELSE IF ~sessionId.some
     THEN /\ mcpRequests' = [mcpRequests EXCEPT ![slot] =
                               [stage |-> "connecting",
                                req |-> [op |-> "POST /mcp", sessionId |-> sessionId],
                                transport |-> Transport(Undefined)]]
          /\ response' = NoResponse
     ELSE /\ response' = [to |-> [op |-> "POST /mcp", sessionId |-> sessionId],
                          status |-> 400, body |-> [error |-> "Invalid session ID"]]
          /\ UNCHANGED mcpRequests
  /\ UNCHANGED << issued, transports >>

\* POST /mcp: `await server.connect(transport)` has returned.
serverConnected(slot) ==
  /\ mcpRequests[slot] # Free
  /\ mcpRequests[slot].stage = "connecting"
  /\ McpStep("server.connect", mcpRequests[slot].req.sessionId)
  /\ handleRequestCall(slot, mcpRequests[slot].req, mcpRequests[slot].transport)
  /\ UNCHANGED << issued, transports >>

\* The transport of a POST without a session id initialises its session: it
\* takes its sessionId from the sessionIdGenerator and calls the callback,
\* `transports[id] = transport`.
onsessioninitialized(slot, uuid) ==
  /\ mcpRequests[slot] # Free
  /\ mcpRequests[slot].stage = "handling"
  /\ mcpRequests[slot].req.op = "POST /mcp"
  /\ ~mcpRequests[slot].transport.sessionId.some
  /\ uuid \notin issued
  /\ McpStep("onsessioninitialized", Some(UuidString(uuid)))
  /\ issued' = issued \cup {uuid}
  /\ transports' = transports \cup {UuidString(uuid)}
  /\ mcpRequests' = [mcpRequests EXCEPT ![slot].transport = Transport(Some(UuidString(uuid)))]
  /\ response' = NoResponse

\* transport.onclose: `if (id && transports[id]) delete transports[id]`.
onclose(transport) ==
  /\ McpStep("onclose", transport.sessionId)
  /\ transports' =
       IF sessionTransport(transports, transport.sessionId) # NoTransport
       THEN transports \ {transport.sessionId.str}
       ELSE transports
  /\ response' = NoResponse
  /\ UNCHANGED << issued, mcpRequests >>

\* The transports there are: those of the sessions initialised so far and
\* those of the requests in flight.
Transports ==
  { Transport(Some(UuidString(uuid))) : uuid \in issued }
    \cup { mcpRequests[slot].transport : slot \in {s \in McpSlots : mcpRequests[s] # Free} }

\* GET /mcp, up to its await.
getMcp(slot, sessionId) ==
  /\ mcpRequests[slot] = Free
  /\ McpStep("GET /mcp", sessionId)
  /\ IF sessionTransport(transports, sessionId) = NoTransport
     THEN /\ response' = [to |-> [op |-> "GET /mcp", sessionId |-> sessionId],
                          status |-> 400,
                          body |-> [error |-> "Invalid or missing session ID"]]
          /\ UNCHANGED mcpRequests
     ELSE handleRequestCall(slot, [op |-> "GET /mcp", sessionId |-> sessionId],
                            sessionTransport(transports, sessionId))
  /\ UNCHANGED << issued, transports >>

\* DELETE /mcp, up to its await.
deleteMcp(slot, sessionId) ==
  /\ mcpRequests[slot] = Free
  /\ McpStep("DELETE /mcp", sessionId)
  /\ IF sessionTransport(transports, sessionId) = NoTransport
     THEN /\ response' = [to |-> [op |-> "DELETE /mcp", sessionId |-> sessionId],
                          status |-> 400,
                          body |-> [error |-> "Invalid or missing session ID"]]
          /\ UNCHANGED mcpRequests
     ELSE handleRequestCall(slot, [op |-> "DELETE /mcp", sessionId |-> sessionId],
                            sessionTransport(transports, sessionId))
  /\ UNCHANGED << issued, transports >>

\* Faulty variant: DELETE /mcp ends without `delete transports[sessionId]`.
handleRequestReturnedNoDelete(slot) ==
  /\ mcpRequests[slot] # Free
  /\ mcpRequests[slot].stage = "handling"
  /\ McpStep("handleRequest", mcpRequests[slot].req.sessionId)
  /\ response' = [to |-> mcpRequests[slot].req, transport |-> mcpRequests[slot].transport]
  /\ mcpRequests' = [mcpRequests EXCEPT ![slot] = Free]
  /\ UNCHANGED << issued, transports >>

\* `await transport.handleRequest(req, res)` has returned: the transport has
\* answered the request and the handler ends, DELETE /mcp after
\* `delete transports[sessionId]`.
handleRequestReturned(slot) ==
  /\ mcpRequests[slot] # Free
  /\ mcpRequests[slot].stage = "handling"
  /\ McpStep("handleRequest", mcpRequests[slot].req.sessionId)
  /\ response' = [to |-> mcpRequests[slot].req, transport |-> mcpRequests[slot].transport]
  /\ transports' =
       IF mcpRequests[slot].req.op = "DELETE /mcp"
       THEN transports \ {mcpRequests[slot].req.sessionId.str}
       ELSE transports
  /\ mcpRequests' = [mcpRequests EXCEPT ![slot] = Free]
  /\ UNCHANGED issued

\* GET /health
getHealth ==
  /\ McpStep("GET /health", Undefined)
  /\ response' = [to |-> [op |-> "GET /health"], status |-> 200,
                  body |-> [status |-> "ok", policies |-> countResult(policies),
                            activeSessions |-> activeSessions(transports)]]
  /\ UNCHANGED << issued, transports, mcpRequests >>

McpNext ==
  \/ \E slot \in FreeMcpSlots, sessionId \in McpSessionIds : postMcp(slot, sessionId)
  \/ \E slot \in McpSlots : serverConnected(slot)
  \/ \E slot \in McpSlots, uuid \in FreshIds : onsessioninitialized(slot, uuid)
  \/ \E transport \in Transports : onclose(transport)
  \/ \E slot \in FreeMcpSlots, sessionId \in McpSessionIds : getMcp(slot, sessionId)
  \/ \E slot \in FreeMcpSlots, sessionId \in McpSessionIds : deleteMcp(slot, sessionId)
  \/ \E slot \in McpSlots : handleRequestReturned(slot)
  \/ getHealth

McpSpec == Init /\ [][McpNext]_vars

\* ------------------------------------------------------------------ parsers
\* The text extraction shared by the PDF and DOCX parsers
\* (src/src/parsers/shared.ts, the version of lines 156-344) and the Markdown
\* section extractor (src/src/parsers/markdown-parser.ts).
\*
\* The regular expressions of the parsers are sequences of items, matched by
\* backtracking in the order of JavaScript's RegExp: a greedy quantifier tries
\* the longest run first, a lazy one the shortest, and the first way of
\* matching the whole pattern wins.

\* String.prototype.toUpperCase, one character.
ToUpperChar(c) ==
  IF \E i \in 1..Len(LowerChars) : LowerChars[i] = c
  THEN UpperChars[CHOOSE i \in 1..Len(LowerChars) : LowerChars[i] = c]
  ELSE c

Digits == {"0", "1", "2", "3", "4", "5", "6", "7", "8", "9"}
IsUpper(c) == \E i \in 1..Len(UpperChars) : UpperChars[i] = c

\* The character classes of the parsers' patterns, named by their source text.
InClassExact(cls, c) ==
  CASE cls = "\\d" -> c \in Digits
    [] cls = "\\s" -> IsSpace(c)
    [] cls = "\\w" -> IsUpper(c) \/ IsUpper(ToUpperChar(c)) \/ c \in Digits \/ c = "_"
    [] cls = "." -> c \notin {"\n", "\r"}
    [] cls = "[^\\n\\r]" -> c \notin {"\n", "\r"}
    [] cls = "[.:-]" -> c \in {".", ":", "-"}
    [] cls = "[/-]" -> c \in {"/", "-"}
    [] cls = "[:\\s]" -> c = ":" \/ IsSpace(c)
    [] cls = "[IVXLC]" -> c \in {"I", "V", "X", "L", "C"}
    [] cls = "[A-Z]" -> IsUpper(c)
    [] cls = "[A-Z\\s]" -> IsUpper(c) \/ IsSpace(c)
    [] cls = "#" -> c = "#"
    [] cls = "," -> c = ","

\* With the i flag a character matches when either of its cases does.
InClass(cls, c, ignoreCase) ==
  IF ignoreCase
  THEN InClassExact(cls, ToLowerChar(c)) \/ InClassExact(cls, ToUpperChar(c))
  ELSE InClassExact(cls, c)

\* The items of a pattern.  A quantifier without an upper limit has max
\* NoLimit.
NoLimit == -1
Bol == [t |-> "^"]
Eol == [t |-> "$"]
Open(g) == [t |-> "(", g |-> g]
Close(g) == [t |-> ")", g |-> g]
Lit(str) == [t |-> "lit", str |-> str]
Cls(cls, min, max) == [t |-> "class", cls |-> cls, min |-> min, max |-> max, lazy |-> FALSE]
LazyCls(cls, min, max) == [t |-> "class", cls |-> cls, min |-> min, max |-> max, lazy |-> TRUE]
Rep(body, min, max) == [t |-> "rep", body |-> body, min |-> min, max |-> max]

NoGroups == [g \in 1..2 |-> [set |-> FALSE, from |-> 0, to |-> 0]]
Fail == [ok |-> FALSE, end |-> 0, caps |-> NoGroups]

SetMin(S) == CHOOSE x \in S : \A y \in S : x <= y
SetMax(S) == CHOOSE x \in S : \A y \in S : x >= y

\* The number of characters of class cls that follow position i of s, counted
\* up to max.
ClassRun(cls, s, i, max, ignoreCase) ==
  LET limit == IF max = NoLimit \/ max > Len(s) - i THEN Len(s) - i ELSE max
      others == {k \in 1..limit : ~InClass(cls, s[i + k], ignoreCase)}
  IN IF limit = 0 \/ ~InClass(cls, s[i + 1], ignoreCase) THEN 0
     ELSE IF others = {} THEN limit
     ELSE SetMin(others) - 1

LitMatches(str, s, i, ignoreCase) ==
  /\ i + Len(str) <= Len(s)
  /\ \A k \in 1..Len(str) :
       IF ignoreCase THEN ToLowerChar(s[i + k]) = ToLowerChar(str[k])
       ELSE s[i + k] = str[k]

\* Match the items against s from position i (the number of characters already
\* consumed), with the groups captured so far.
RECURSIVE MatchItems(_, _, _, _, _)
MatchItems(items, s, i, caps, ignoreCase) ==
  IF items = << >> THEN [ok |-> TRUE, end |-> i, caps |-> caps]
  ELSE
    LET it == Head(items)
        rest == Tail(items)
    IN CASE it.t = "^" ->
              IF i = 0 THEN MatchItems(rest, s, i, caps, ignoreCase) ELSE Fail
         [] it.t = "$" ->
              IF i = Len(s) THEN MatchItems(rest, s, i, caps, ignoreCase) ELSE Fail
         [] it.t = "(" ->
              MatchItems(rest, s, i, [caps EXCEPT ![it.g] = [set |-> FALSE, from |-> i, to |-> i]], ignoreCase)
         [] it.t = ")" ->
              MatchItems(rest, s, i, [caps EXCEPT ![it.g] = [set |-> TRUE, from |-> @.from, to |-> i]], ignoreCase)
         [] it.t = "lit" ->
              IF LitMatches(it.str, s, i, ignoreCase)
              THEN MatchItems(rest, s, i + Len(it.str), caps, ignoreCase)
              ELSE Fail
         [] it.t = "class" ->
              \* The class takes k characters, the most it can (the fewest when
              \* lazy) for which the rest of the pattern matches.
              LET n == ClassRun(it.cls, s, i, it.max, ignoreCase)
                  good == {k \in it.min..n : MatchItems(rest, s, i + k, caps, ignoreCase).ok}
              IN IF n < it.min THEN Fail
                 ELSE IF n = it.min THEN MatchItems(rest, s, i + n, caps, ignoreCase)
                 ELSE IF good = {} THEN Fail
                 ELSE MatchItems(rest, s, i + (IF it.lazy THEN SetMin(good) ELSE SetMax(good)),
                                 caps, ignoreCase)
         [] it.t = "rep" ->
              \* One more round of the body when that leads to a match, else none.
              LET again == [it EXCEPT !.max = IF @ = NoLimit THEN NoLimit ELSE @ - 1,
                                      !.min = IF @ > 0 THEN @ - 1 ELSE 0]
                  more == IF it.max = 0 THEN Fail
                          ELSE MatchItems(it.body \o << again >> \o rest, s, i, caps, ignoreCase)
              IN IF more.ok THEN more
                 ELSE IF it.min = 0 THEN MatchItems(rest, s, i, caps, ignoreCase)
                 ELSE Fail

\* A compiled pattern and RegExp.prototype.exec without the g flag: the match
\* at the leftmost position where there is one; match[g] is undefined for a
\* group that took no part.
RegExpOf(items, ignoreCase) == [items |-> items, ignoreCase |-> ignoreCase]
NoMatchArray == [ok |-> FALSE, index |-> 0, groups |-> [g \in 1..2 |-> Undefined]]

\* The match array of a match r found at position index of s.
MatchArray(s, index, r) ==
  [ok |-> TRUE, index |-> index,
   groups |-> [g \in 1..2 |->
                 IF r.caps[g].set
                 THEN Some(SubSeq(s, r.caps[g].from + 1, r.caps[g].to))
                 ELSE Undefined]]

\* The match at the first of the positions where there is one.
MatchAtFirst(re, s, starts) ==
  IF starts = {} THEN NoMatchArray
  ELSE MatchArray(s, SetMin(starts),
                  MatchItems(re.items, s, SetMin(starts), NoGroups, re.ignoreCase))

regexExec(re, s) ==
  MatchAtFirst(re, s, {k \in 0..Len(s) : MatchItems(re.items, s, k, NoGroups, re.ignoreCase).ok})

\* String.prototype.split with a one-character separator.
RECURSIVE Split(_, _)
Split(s, sep) ==
  IF \A i \in 1..Len(s) : s[i] # sep THEN << s >>
  ELSE LET i == CHOOSE k \in 1..Len(s) : s[k] = sep /\ \A j \in 1..(k - 1) : s[j] # sep
       IN << SubSeq(s, 1, i - 1) >> \o Split(SubSeq(s, i + 1, Len(s)), sep)

\* Array.prototype.join with a one-character separator.
RECURSIVE Join(_, _)
Join(parts, sep) ==
  IF parts = << >> THEN << >>
  ELSE IF Len(parts) = 1 THEN parts[1]
  ELSE parts[1] \o << sep >> \o Join(Tail(parts), sep)

\* String.prototype.startsWith.
StartsWith(s, prefix) ==
  Len(prefix) <= Len(s) /\ SubSeq(s, 1, Len(prefix)) = prefix

\* The lines of a text that are not blank.
NonBlank(lines) == SelectSeq(lines, LAMBDA l : Trim(l) # << >>)

HEADING_PATTERNS == <<
  \* Numbered sections: 1. 1.1 1.1.1 etc.
  RegExpOf(<< Bol, Open(1), Cls("\\d", 1, NoLimit),
              Rep(<< Lit(<<".">>), Cls("\\d", 1, NoLimit) >>, 0, 5),
              Cls("[.:-]", 0, 1), Close(1), Cls("\\s", 0, NoLimit),
              Open(2), Cls("[^\\n\\r]", 1, 200), Close(2), Eol >>, FALSE),
  \* Roman numerals: I. II. III. etc.
  RegExpOf(<< Bol, Open(1), Cls("[IVXLC]", 1, 10), Cls("[.:-]", 1, 1), Close(1),
              Cls("\\s", 0, NoLimit),
              Open(2), Cls("[^\\n\\r]", 1, 200), Close(2), Eol >>, TRUE),
  \* Letter sections: A. B. C. etc.
  RegExpOf(<< Bol, Open(1), Cls("[A-Z]", 1, 1), Cls("[.:-]", 1, 1), Close(1),
              Cls("\\s", 0, NoLimit),
              Open(2), Cls("[^\\n\\r]", 1, 200), Close(2), Eol >>, FALSE),
  \* Abbreviations: AC-1, AU-2, etc.
  RegExpOf(<< Bol, Open(1), Cls("[A-Z]", 2, 4), Close(1), Cls("\\s", 1, NoLimit),
              Open(2), Cls("[A-Z]", 1, 1), Cls("[^\\n\\r]", 1, 200), Close(2), Eol >>, FALSE),
  \* ALL CAPS headings
  RegExpOf(<< Bol, Open(1), Cls("[A-Z]", 1, 1), Cls("[A-Z\\s]", 3, 100), Close(1),
              Eol >>, FALSE) >>

\* A value that is null, or a heading with its level.
Null == [some |-> FALSE, heading |-> << >>, level |-> 0]
HeadingInfo(heading, level) == [some |-> TRUE, heading |-> heading, level |-> level]

\* numberPart.replace(/[.:-]$/, "")
DropTrailingPunctuation(s) ==
  IF s # << >> /\ s[Len(s)] \in {".", ":", "-"} THEN SubSeq(s, 1, Len(s) - 1) ELSE s

\* (numberPart.match(/\./g) || []).length
CountDots(s) == Cardinality({i \in 1..Len(s) : s[i] = "."})

\* Faulty variant: the dots are counted with the trailing punctuation.
extractHeadingInfoAllDots(match) ==
  IF match.groups[2].some /\ match.groups[2].str # << >>
  THEN HeadingInfo(Trim(match.groups[1].str \o <<" ">> \o match.groups[2].str),
                   CountDots(match.groups[1].str) + 1)
  ELSE HeadingInfo(Trim(match.groups[1].str), 1)

extractHeadingInfo(match) ==
  IF match.groups[2].some /\ match.groups[2].str # << >>
  THEN HeadingInfo(Trim(match.groups[1].str \o <<" ">> \o match.groups[2].str),
                   CountDots(DropTrailingPunctuation(match.groups[1].str)) + 1)
  ELSE HeadingInfo(Trim(match.groups[1].str), 1)

\* The first pattern that matches the line decides.
RECURSIVE tryMatchHeadingFrom(_, _, _)
tryMatchHeadingWith(match, patterns, k, line) ==
  IF match.ok THEN extractHeadingInfo(match)
  ELSE tryMatchHeadingFrom(patterns, k + 1, line)

tryMatchHeadingFrom(patterns, k, line) ==
  IF k > Len(patterns) THEN Null
  ELSE tryMatchHeadingWith(regexExec(patterns[k], line), patterns, k, line)

\* Faulty variant: the last pattern is not tried.
tryMatchHeadingButLast(line) ==
  tryMatchHeadingFrom(SubSeq(HEADING_PATTERNS, 1, Len(HEADING_PATTERNS) - 1), 1, line)

\* Faulty variant: the patterns are tried from the last one to the first.
tryMatchHeadingLastFirst(line) == tryMatchHeadingFrom(Reverse(HEADING_PATTERNS), 1, line)

tryMatchHeading(line) == tryMatchHeadingFrom(HEADING_PATTERNS, 1, line)

\* Faulty variant: a section is kept whatever its content.
saveSectionAlways(section, contentBuffer, sections) ==
  IF ~section.some THEN sections
  ELSE Append(sections, [heading |-> section.heading,
                         content |-> Trim(Join(contentBuffer, "\n")),
                         level |-> section.level])

saveSection(section, contentBuffer, sections) ==
  IF ~section.some THEN sections
  ELSE LET content == Trim(Join(contentBuffer, "\n"))
       IN IF content # << >>
          THEN Append(sections, [heading |-> section.heading, content |-> content,
                                 level |-> section.level])
          ELSE sections

\* Faulty variant: the limits themselves are accepted.
isHeadingAcceptedInclusive(headingMatch) ==
  headingMatch.some /\ Len(headingMatch.heading) >= 2 /\ Len(headingMatch.heading) <= 200

\* The test of extractSections on a line's match.
isHeadingAccepted(headingMatch) ==
  headingMatch.some /\ Len(headingMatch.heading) > 2 /\ Len(headingMatch.heading) < 200

\* The loop of extractSections from line k on.
RECURSIVE extractSectionsFrom(_, _, _, _, _)
\* Faulty variant: a new heading does not empty the content buffer.
extractSectionsLineKeepBuffer(lines, k, currentSection, contentBuffer, sections, trimmedLine, headingMatch) ==
  IF trimmedLine = << >>
  THEN extractSectionsFrom(lines, k + 1, currentSection, contentBuffer, sections)
  ELSE IF isHeadingAccepted(headingMatch)
  THEN extractSectionsFrom(lines, k + 1,
                           HeadingInfo(headingMatch.heading, headingMatch.level), contentBuffer,
                           saveSection(currentSection, contentBuffer, sections))
  ELSE IF currentSection.some
  THEN extractSectionsFrom(lines, k + 1, currentSection,
                           Append(contentBuffer, trimmedLine), sections)
  ELSE extractSectionsFrom(lines, k + 1, currentSection, contentBuffer, sections)

\* One round of the loop, on the trimmed line k and its match.
extractSectionsLine(lines, k, currentSection, contentBuffer, sections, trimmedLine, headingMatch) ==
  IF trimmedLine = << >>
  THEN extractSectionsFrom(lines, k + 1, currentSection, contentBuffer, sections)
  ELSE IF isHeadingAccepted(headingMatch)
  THEN extractSectionsFrom(lines, k + 1,
                           HeadingInfo(headingMatch.heading, headingMatch.level), << >>,
                           saveSection(currentSection, contentBuffer, sections))
  ELSE IF currentSection.some
  THEN extractSectionsFrom(lines, k + 1, currentSection,
                           Append(contentBuffer, trimmedLine), sections)
  ELSE extractSectionsFrom(lines, k + 1, currentSection, contentBuffer, sections)

extractSectionsFrom(lines, k, currentSection, contentBuffer, sections) ==
  IF k > Len(lines) THEN saveSection(currentSection, contentBuffer, sections)
  ELSE extractSectionsLine(lines, k, currentSection, contentBuffer, sections,
                           Trim(lines[k]), tryMatchHeading(Trim(lines[k])))

\* Faulty variant: the lines before the first heading form a section.
extractSectionsWithPreamble(content) ==
  extractSectionsFrom(Split(content, "\n"), 1,
                      HeadingInfo(<<"P","r","e","a","m","b","l","e">>, 1), << >>, << >>)

extractSections(content) ==
  extractSectionsFrom(Split(content, "\n"), 1, Null, << >>, << >>)

\* fileName.replace(/\.(pdf|docx|md)$/i, "")
DropExtension(fileName) ==
  LET lower == ToLowerCase(fileName)
      ends(ext) == Len(ext) <= Len(lower)
                   /\ SubSeq(lower, Len(lower) - Len(ext) + 1, Len(lower)) = ext
      cut(ext) == SubSeq(fileName, 1, Len(fileName) - Len(ext))
  IN CASE ends(<<".","p","d","f">>) -> cut(<<".","p","d","f">>)
       [] ends(<<".","d","o","c","x">>) -> cut(<<".","d","o","c","x">>)
       [] ends(<<".","m","d">>) -> cut(<<".","m","d">>)
       [] OTHER -> fileName

\* filePath.split("/").pop() || filePath, without its extension.
fileNameFallback(filePath) ==
  LET parts == Split(filePath, "/")
      fileName == IF parts[Len(parts)] # << >> THEN parts[Len(parts)] ELSE filePath
  IN DropExtension(fileName)

\* The lines that extractTitle skips as page numbers or dates.
isSkippedTitleLine(lowerLine) ==
  \/ Includes(lowerLine, <<"p","a","g","e"," ">>)
  \/ StartsWith(lowerLine, <<"d","a","t","e">>)
  \/ StartsWith(lowerLine, <<"v","e","r","s","i","o","n">>)
  \/ StartsWith(lowerLine, <<"e","f","f","e","c","t","i","v","e">>)
  \/ StartsWith(lowerLine, <<"r","e","v","i","s","i","o","n">>)
  \/ StartsWith(lowerLine, <<"r","e","v"," ">>)

\* Faulty variant: lines of 5 and of 150 characters are titles too.
isTitleLineInclusive(line) ==
  /\ Len(line) >= 5 /\ Len(line) <= 150
  /\ IsUpper(line[1])
  /\ Len(SplitWhitespace(line)) >= 2

isTitleLine(line) ==
  /\ Len(line) > 5 /\ Len(line) < 150
  /\ IsUpper(line[1])
  /\ Len(SplitWhitespace(line)) >= 2

Min(a, b) == IF a <= b THEN a ELSE b

\* The loop of extractTitle over the first ten non-blank lines.
RECURSIVE extractTitleFrom(_, _, _)
extractTitleFrom(lines, i, filePath) ==
  IF i > Min(10, Len(lines)) THEN fileNameFallback(filePath)
  ELSE LET line == Trim(lines[i])
       IN IF ~isSkippedTitleLine(ToLowerCase(line)) /\ isTitleLine(line)
          THEN line
          ELSE extractTitleFrom(lines, i + 1, filePath)

\* Faulty variant: without a title line, the first line of the text is the title.
extractTitleFirstLine(content, filePath) ==
  LET lines == NonBlank(Split(content, "\n"))
      title == extractTitleFrom(lines, 1, filePath)
  IN IF title = fileNameFallback(filePath) THEN Split(content, "\n")[1] ELSE title

extractTitle(content, filePath) ==
  extractTitleFrom(NonBlank(Split(content, "\n")), 1, filePath)

DateDigits ==
  << Open(1), Cls("\\d", 1, 2), Cls("[/-]", 1, 1), Cls("\\d", 1, 2), Cls("[/-]", 1, 1),
     Cls("\\d", 2, 4), Close(1) >>
VersionDigits ==
  << Open(1), Cls("\\d", 1, NoLimit),
     Rep(<< Lit(<<".">>), Cls("\\d", 1, NoLimit) >>, 0, 5), Close(1) >>

datePatterns == <<
  RegExpOf(<< Lit(<<"e","f","f","e","c","t","i","v","e">>), Cls("\\s", 0, 5), Rep(<< Lit(<<"d","a","t","e">>) >>, 0, 1),
              Cls("[:\\s]", 0, 5) >> \o DateDigits, TRUE),
  RegExpOf(<< Lit(<<"d","a","t","e">>), Rep(<< Lit(<<"d">>) >>, 0, 1), Cls("[:\\s]", 0, 5) >>
           \o DateDigits, TRUE),
  RegExpOf(<< Open(1), Cls("\\w", 3, 20), Cls("\\s", 1, NoLimit), Cls("\\d", 1, 2),
              Cls(",", 0, 1), Cls("\\s", 1, NoLimit), Cls("\\d", 4, 4), Close(1) >>, TRUE) >>

versionPatterns == <<
  RegExpOf(<< Lit(<<"v","e","r","s","i","o","n">>), Cls("[:\\s]", 0, 5) >> \o VersionDigits, TRUE),
  RegExpOf(<< Lit(<<"r","e","v">>), Rep(<< Lit(<<"i","s","i","o","n">>) >>, 0, 1), Cls("[:\\s]", 0, 5) >>
           \o VersionDigits, TRUE),
  RegExpOf(<< Lit(<<"v">>) >> \o VersionDigits, TRUE) >>

\* match[1] of the first pattern that matches, undefined when none does.
RECURSIVE firstMatch(_, _, _)
firstMatchWith(match, patterns, k, content) ==
  IF match.ok THEN match.groups[1]
  ELSE firstMatch(patterns, k + 1, content)

firstMatch(patterns, k, content) ==
  IF k > Len(patterns) THEN Undefined
  ELSE firstMatchWith(regexExec(patterns[k], content), patterns, k, content)

\* pageCount is a number or undefined (NoPageCount).
NoPageCount == -1

extractMetadata(content, pageCount) ==
  [pageCount |-> pageCount,
   effectiveDate |-> firstMatch(datePatterns, 1, content),
   version |-> firstMatch(versionPatterns, 1, content)]

\* markdown-parser.ts: /^(#{1,6})\s+(.+?)$/
headingRegex ==
  RegExpOf(<< Bol, Open(1), Cls("#", 1, 6), Close(1), Cls("\\s", 1, NoLimit),
              Open(2), LazyCls(".", 1, NoLimit), Close(2), Eol >>, FALSE)

saveMarkdownSection(section, contentBuffer, sections) ==
  IF ~section.some THEN sections
  ELSE LET content == Trim(Join(contentBuffer, "\n"))
       IN IF content # << >>
          THEN Append(sections, [heading |-> section.heading, content |-> content,
                                 level |-> section.level])
          ELSE sections

\* The loop of extractMarkdownSections from line k on.
RECURSIVE extractMarkdownSectionsFrom(_, _, _, _, _)
\* One round of the loop, on the trimmed line k and its match.
extractMarkdownSectionsLine(lines, k, currentSection, contentBuffer, sections, trimmedLine, headingMatch) ==
  IF trimmedLine = << >>
  THEN extractMarkdownSectionsFrom(lines, k + 1, currentSection, contentBuffer, sections)
  ELSE IF headingMatch.ok
  THEN extractMarkdownSectionsFrom(lines, k + 1,
         HeadingInfo(Trim(headingMatch.groups[2].str), Len(headingMatch.groups[1].str)),
         << >>, saveMarkdownSection(currentSection, contentBuffer, sections))
  ELSE IF currentSection.some
  THEN extractMarkdownSectionsFrom(lines, k + 1, currentSection,
                                   Append(contentBuffer, trimmedLine), sections)
  ELSE extractMarkdownSectionsFrom(lines, k + 1, currentSection, contentBuffer, sections)

extractMarkdownSectionsFrom(lines, k, currentSection, contentBuffer, sections) ==
  IF k > Len(lines) THEN saveMarkdownSection(currentSection, contentBuffer, sections)
  ELSE extractMarkdownSectionsLine(lines, k, currentSection, contentBuffer, sections,
                                   Trim(lines[k]), regexExec(headingRegex, Trim(lines[k])))

extractMarkdownSections(markdown) ==
  extractMarkdownSectionsFrom(Split(markdown, "\n"), 1, Null, << >>, << >>)

\* ------------------------------------------------------- parser inputs
\* The lines of capital letters have up to MaxShortCaps characters, or from
\* MinLongCaps to MaxCapsLength; the long texts after a number have from
\* MinLongText to MaxTextLength characters.
MaxShortCaps == 8
MinLongCaps == 98
MaxCapsLength == 105
MinLongText == 194
MaxTextLength == 202
MinLongTitle == 148
MaxTitleLength == 151

Repeat(c, n) == [i \in 1..n |-> c]

\* The lines under test: lines that begin with a number, lines of capital
\* letters and spaces, lines with a number and a text of a given length, and
\* lines of the other kinds.
ProbeLines ==
  { <<"1","."," ","X">>, <<"1",".","1"," ","X">>, <<"1",".","2",".","3"," ","F","o","o">>, <<"1",".","2",".","3",".","4",".","5",".","6"," ","X">>, <<"1",".","2",".","3",".","4",".","5",".","6",".","7"," ","X">>,
    <<"1",".","5">>, <<"2","0","2","4">>, <<"1",".","1","."," ","X">>, <<"1",":"," ","X">>, <<"1","-","X">>, <<"1","2">>, <<"1","X">>, <<"1">>,
    <<"1",".","2",".","3",".","4",".","5",".","6","."," ","X">>, <<"3",".","1","4"," ","i","s"," ","p","i">>, <<"1","."," ","F","i","r","s","t"," ","S","e","c","t","i","o","n">> }
  \cup
  { Repeat("A", n) : n \in (1..MaxShortCaps) \cup (MinLongCaps..MaxCapsLength) }
  \cup { <<"P","U","R","P","O","S","E"," ","A","N","D"," ">> \o Repeat("A", n) :
           n \in (1..MaxShortCaps) \cup ((MinLongCaps - 12)..(MaxCapsLength - 12)) }
  \cup { <<"P","U","R","P","O","S","E"," ","A","N","D"," ","S","C","O","P","E">>, <<"D","E","F","I","N","I","T","I","O","N","S">>, <<"A","B"," ","C","D">>, <<"A","B"," "," ","C","D">>,
         <<"D","A","T","A"," ","R","E","T","E","N","T","I","O","N">>, <<"D","A","T","A"," "," ","R","E","T","E","N","T","I","O","N">>, <<"A","B","C","D","E"," "," ","F","G">>, <<"A"," ","B">>, <<"A"," ","B","C">>, <<"A","B"," ","C">>, <<"A","B"," "," ","C">>, <<"A","B"," "," ","C","D"," ","E","F">> }
  \cup
  { <<"1","."," ">> \o Repeat("x", n) : n \in MinLongText..MaxTextLength }
  \cup { <<"1","2","3","4","5"," ">> \o Repeat("x", n) : n \in MinLongText..MaxTextLength }
  \cup
  { <<"I","."," ","F","i","r","s","t"," ","S","e","c","t","i","o","n">>, <<"i","v",":"," ","s","c","o","p","e">>, <<"X","I","V","L","C","X","I","V","L","C","X","."," ","E","l","e","v","e","n">>, <<"A","."," ","P","u","r","p","o","s","e">>,
    <<"a","."," ","p","u","r","p","o","s","e">>, <<"A","C"," ","A","c","c","e","s","s"," ","C","o","n","t","r","o","l">>, <<"A","B","C"," ","V","a","l","i","d"," ","H","e","a","d","i","n","g">>, <<"A","B">>, <<"A">>,
    <<"P","l","a","i","n"," ","t","e","x","t"," ","h","e","r","e">>, <<"T","e","s","t"," ","P","o","l","i","c","y">>, <<"#"," ","T","i","t","l","e">> }

\* Lines for extractTitle: of 5 and 6 characters, without a capital, of one
\* word, with a tab, the skipped kinds, and of MinLongTitle to MaxTitleLength
\* characters.
TitleLines ==
  { <<"A","b"," ","c","d">>,
    <<"A","b"," ","c","d","e">>,
    <<"a","b"," ","c","d","e">>,
    <<"A","b","c","d","e","f">>,
    <<"A","b","\t","c","d","e">>,
    <<"P","a","g","e"," ","1"," ","o","f"," ","2">>,
    <<"T","i","t","l","e"," ","p","a","g","e"," ","2">>,
    <<"D","a","t","e"," ","o","f"," ","i","s","s","u","e">>,
    <<"D","a","t","e","d"," ","M","a","t","e","r","i","a","l">>,
    <<"V","e","r","s","i","o","n","s"," ","M","a","t","t","e","r">>,
    <<"E","f","f","e","c","t","i","v","e"," ","U","s","e">>,
    <<"R","e","v","i","s","i","o","n"," ","H","i","s","t","o","r","y">>,
    <<"R","e","v"," ","2"," ","n","o","t","e","s">>,
    <<"R","e","v","i","e","w"," ","O","f"," ","T","h","i","n","g","s">>,
    <<"G","o","o","d"," ","T","i","t","l","e">> }
  \cup { <<"T"," ">> \o Repeat("x", n) : n \in (MinLongTitle - 2)..(MaxTitleLength - 2) }

\* A text with k lines that are no titles, blank lines between them, before a
\* title.
RECURSIVE TitleAfter(_)
TitleAfter(k) ==
  IF k = 0 THEN <<"G","o","o","d"," ","T","i","t","l","e">>
  ELSE <<"x","\n"," ","\n">> \o TitleAfter(k - 1)

\* A document with the line between a section and a line of content.
Between(line) == <<"1"," ","A">> \o <<"\n">> \o <<"b">> \o <<"\n">> \o line \o <<"\n">> \o <<"c">>

\* Whole documents: several levels, sections without content, no section, no
\* text, a title and metadata, Markdown.
WholeTexts ==
  { << >>,
    <<"\n">>,
    <<"T","e","s","t"," ","P","o","l","i","c","y">> \o <<"\n", "\n">> \o <<"1","."," ","F","i","r","s","t">> \o <<"\n">> \o <<"o","n","e">> \o <<"\n">>
      \o <<"1",".","1"," ","S","u","b">> \o <<"\n">> \o <<"t","w","o">> \o <<"\n">> \o <<"1",".","1",".","1"," ","D","e","e","p">> \o <<"\n">> \o <<"t","h","r","e","e">>,
    <<"T","e","s","t"," ","P","o","l","i","c","y">> \o <<"\n", "\n">> \o <<"1","."," ","F","i","r","s","t"," ","S","e","c","t","i","o","n">> \o <<"\n", "\n">>
      \o <<"2","."," ","S","e","c","o","n","d"," ","S","e","c","t","i","o","n">> \o <<"\n", " ", "\n">> \o <<"3","."," ","T","h","i","r","d"," ","S","e","c","t","i","o","n">> \o <<"\n">>
      \o <<"T","h","i","s"," ","o","n","e"," ","h","a","s"," ","c","o","n","t","e","n","t">>,
    <<"1","."," ","O","n","l","y"," ","a"," ","h","e","a","d","i","n","g">>,
    <<"J","u","s","t"," ","s","o","m","e"," ","p","l","a","i","n"," ","t","e","x","t">> \o <<"\n">> \o <<"w","i","t","h","o","u","t"," ","a","n","y"," ","h","e","a","d","i","n","g">>,
    <<"p","a","g","e"," ","1">> \o <<"\n">> \o <<"V","e","r","s","i","o","n"," ","2",".","1">> \o <<"\n">> \o <<"S","e","c","u","r","i","t","y"," ","P","o","l","i","c","y">> \o <<"\n">>
      \o <<"E","f","f","e","c","t","i","v","e"," ","D","a","t","e",":"," ","0","1","/","1","5","/","2","0","2","5">>,
    <<"d","a","t","e","d"," ","1","-","2","-","2","4"," ","r","e","v"," ","3">>,
    <<"J","a","n","u","a","r","y"," ","5",","," ","2","0","2","5"," ","v","1",".","0",".","2">>,
    <<"#"," ","T","i","t","l","e">> \o <<"\n">> \o <<"i","n","t","r","o">> \o <<"\n">> \o <<"#","#"," ","P","a","r","t">> \o <<"\n", "\n">>
      \o <<"#","#","#"," ","D","e","e","p">> \o <<"\n">> \o <<"t","e","x","t">> \o <<"\n">> \o <<"#","#","#","#","#","#","#"," ","s","e","v","e","n">> \o <<"\n">> \o <<"#","n","o","n","e">>,
    <<"#","#"," ","E","m","p","t","y">> \o <<"\n">> \o <<"#"," ","L","a","s","t">> }

\* The texts of up to MaxLines lines, each of them blank, a line of content
\* (one of them with spaces and a carriage return around it) or a heading.
MaxLines == 4
SectionLines ==
  { << >>, <<"p">>, <<" ","q"," ","\r">>, <<"1","."," ","O","n","e">>, <<"2",".","1"," ","T","w","o">> }
LineTexts ==
  { Join(lines, "\n") : lines \in UNION { [1..n -> SectionLines] : n \in 1..MaxLines } }

\* The documents read: every line under test, every text of lines and every
\* whole text under one path, and the whole texts under every path and page
\* count.
Documents ==
  { [content |-> t, filePath |-> <<"/","d","o","c","s","/","p","o","l","i","c","y",".","P","D","F">>, pageCount |-> 3] :
      t \in { Between(line) : line \in ProbeLines \cup TitleLines } \cup LineTexts \cup WholeTexts
              \cup { TitleAfter(9), TitleAfter(10) } }
  \cup { [content |-> t, filePath |-> f, pageCount |-> n] :
           t \in WholeTexts,
           f \in { <<"/","d","o","c","s","/","p","o","l","i","c","y",".","P","D","F">>, <<"n","o","t","e","s",".","m","d">>, <<"d","i","r","/">>, <<"a","/","b",".","d","o","c","x",".","t","x","t">> },
           n \in { NoPageCount, 0, 3 } }

\* ------------------------------------------------------- parser actions
\* A parser has read the text of a file (parsePDF: parser.getText and getInfo;
\* parseMarkdown: readFile); the extractors are then applied to it.
NotTheStore ==
  UNCHANGED << policies, issued, returned, pc, idx, results, lastIndex, contentMatches,
               added, removed, uploads, request, response, mcpVars >>

readDocument(document) ==
  /\ call.name = "new"
  /\ call' = [name |-> "readDocument", document |-> document]
  /\ ret' = NoValue
  /\ NotTheStore

extractSectionsCall ==
  /\ call.name = "readDocument"
  /\ call' = [name |-> "extractSections", document |-> call.document]
  /\ ret' = Value(extractSections(call.document.content))
  /\ NotTheStore

extractTitleCall ==
  /\ call.name = "readDocument"
  /\ call' = [name |-> "extractTitle", document |-> call.document]
  /\ ret' = Value(extractTitle(call.document.content, call.document.filePath))
  /\ NotTheStore

extractMetadataCall ==
  /\ call.name = "readDocument"
  /\ call' = [name |-> "extractMetadata", document |-> call.document]
  /\ ret' = Value(extractMetadata(call.document.content, call.document.pageCount))
  /\ NotTheStore

extractMarkdownSectionsCall ==
  /\ call.name = "readDocument"
  /\ call' = [name |-> "extractMarkdownSections", document |-> call.document]
  /\ ret' = Value(extractMarkdownSections(call.document.content))
  /\ NotTheStore

ParserNext ==
  \/ \E document \in Documents : readDocument(document)
  \/ extractSectionsCall
  \/ extractTitleCall
  \/ extractMetadataCall
  \/ extractMarkdownSectionsCall

ParserSpec == Init /\ [][ParserNext]_vars

\* ------------------------------------------------------------ auth-manager
\* The authentication handler of src/src/auth-manager.ts.  What the handler
\* does with a request is a record: whether it called next(), the auth
\* context it set on the request, and the response it sent (status 0: none).
NotSet == [set |-> FALSE, authenticated |-> FALSE, userId |-> Undefined,
           scopes |-> [some |-> FALSE, list |-> << >>]]
Auth(authenticated, userId, scopes) ==
  [set |-> TRUE, authenticated |-> authenticated, userId |-> userId, scopes |-> scopes]
NoScopes == [some |-> FALSE, list |-> << >>]

Pass(auth) ==
  [next |-> TRUE, auth |-> auth, status |-> 0, error |-> "", message |-> ""]
\* Faulty variant: after the error response the handler goes on to next().
RejectAndGoOn(status, error, message) ==
  [next |-> TRUE, auth |-> NotSet, status |-> status, error |-> error, message |-> message]

Reject(status, error, message) ==
  [next |-> FALSE, auth |-> NotSet, status |-> status, error |-> error, message |-> message]

\* A string that is neither undefined nor empty.
Truthy(opt) == opt.some /\ opt.str # << >>

\* The tokens of the requests.  jwt.verify belongs to the jsonwebtoken library:
\* it is modelled on a table of tokens with the secret each was signed with,
\* its aud and iss claims, whether it has expired, and its sub and scope.
\* j1 is valid, j2 has expired, j3 is signed with another secret, j4 has
\* another audience and j5 another issuer.
Jwts == {<<"j","1">>, <<"j","2">>, <<"j","3">>, <<"j","4">>, <<"j","5">>}
JwtOf(token) ==
  [signedWith |-> IF token = <<"j","3">> THEN <<"s","2">> ELSE <<"s","1">>,
   aud |-> IF token = <<"j","4">> THEN <<"a","2">> ELSE <<"a","1">>,
   iss |-> IF token = <<"j","5">> THEN <<"i","2">> ELSE <<"i","1">>,
   expired |-> token = <<"j","2">>,
   sub |-> IF token = <<"j","1">> THEN Some(<<"u","1">>) ELSE Undefined,
   scope |-> IF token = <<"j","1">> THEN Some(<<"r","e","a","d"," ","w","r","i","t","e">>) ELSE Undefined]

\* jwt.verify(token, secret, {audience, issuer}): the payload, or the error
\* thrown.
jwtVerify(token, secret, audience, issuer) ==
  IF token \notin Jwts THEN Throws("JsonWebTokenError")
  ELSE LET t == JwtOf(token)
       IN IF t.signedWith # secret THEN Throws("JsonWebTokenError")
          ELSE IF t.expired THEN Throws("TokenExpiredError")
          ELSE IF audience.some /\ t.aud # audience.str THEN Throws("JsonWebTokenError")
          ELSE IF issuer.some /\ t.iss # issuer.str THEN Throws("JsonWebTokenError")
          ELSE Value([sub |-> t.sub, scope |-> t.scope])

\* What a call of jwt.verify can do: the above, or throw an error that is not
\* one of the library's token errors.
jwtVerifyOutcomes(token, secret, audience, issuer) ==
  {jwtVerify(token, secret, audience, issuer), Throws("Error")}

parseJwtScopes(scope) ==
  IF ~Truthy(scope) THEN NoScopes
  ELSE [some |-> TRUE, list |-> Split(scope.str, " ")]

\* Faulty variant: an expired token is reported like any other invalid token.
handleJwtErrorNoExpiry(error) ==
  IF error \in {"TokenExpiredError", "JsonWebTokenError"}
  THEN Reject(401, "Unauthorized", "Invalid token")
  ELSE Reject(500, "Internal Server Error", "Token verification failed")

handleJwtError(error) ==
  IF error = "TokenExpiredError"
  THEN Reject(401, "Unauthorized", "Token has expired")
  ELSE IF error = "JsonWebTokenError"
  THEN Reject(401, "Unauthorized", "Invalid token")
  ELSE Reject(500, "Internal Server Error", "Token verification failed")

\* Faulty variant: a token that begins with the key is accepted.
authenticateApiKeyPrefix(token, config) ==
  IF ~Truthy(config.apiKey)
  THEN Reject(500, "Internal Server Error", "Authentication not properly configured")
  ELSE IF ~StartsWith(token, config.apiKey.str)
  THEN Reject(401, "Unauthorized", "Invalid API key")
  ELSE Pass(Auth(TRUE, Undefined, NoScopes))

authenticateApiKey(token, config) ==
  IF ~Truthy(config.apiKey)
  THEN Reject(500, "Internal Server Error", "Authentication not properly configured")
  ELSE IF token # config.apiKey.str
  THEN Reject(401, "Unauthorized", "Invalid API key")
  ELSE Pass(Auth(TRUE, Undefined, NoScopes))

\* verified is what jwt.verify did, when it is called.
authenticateJwt(token, config, verified) ==
  IF ~Truthy(config.jwtSecret)
  THEN Reject(500, "Internal Server Error", "Authentication not properly configured")
  ELSE IF verified.kind = "value"
  THEN Pass(Auth(TRUE, verified.val.sub, parseJwtScopes(verified.val.scope)))
  ELSE handleJwtError(verified.val)

Bearer == <<"B","e","a","r","e","r"," ">>

\* Faulty variant: the scheme is compared without regard to case.
hasBearerTokenAnyCase(authHeader) ==
  authHeader.some /\ StartsWith(ToLowerCase(authHeader.str), ToLowerCase(Bearer))

\* authHeader?.startsWith("Bearer ")
hasBearerToken(authHeader) ==
  authHeader.some /\ StartsWith(authHeader.str, Bearer)

\* authHeader.substring(7)
bearerToken(authHeader) == SubSeq(authHeader.str, Len(Bearer) + 1, Len(authHeader.str))

\* Faulty variant: without authentication the request counts as authenticated.
noAuthenticationAuthenticated == Pass(Auth(TRUE, Undefined, NoScopes))

\* Mode "none".
noAuthentication == Pass(Auth(FALSE, Undefined, NoScopes))

\* The handler that createAuthHandler(config) returns, for a request with the
\* given Authorization header.
authHandler(config, authHeader, verified) ==
  IF config.mode = "none" THEN noAuthentication
  ELSE IF ~hasBearerToken(authHeader)
  THEN Reject(401, "Unauthorized",
              "Missing or invalid Authorization header. Expected: Authorization: Bearer <token>")
  ELSE CASE config.mode = "api-key" -> authenticateApiKey(bearerToken(authHeader), config)
         [] config.mode = "jwt" -> authenticateJwt(bearerToken(authHeader), config, verified)
         [] OTHER -> Reject(500, "Internal Server Error", "Invalid authentication mode")

\* The configurations that loadMcpAuthConfig and loadWebAuthConfig can yield,
\* and one whose mode is none of the three.
AuthConfigOf(mode, apiKey, jwtSecret, jwtAudience, jwtIssuer) ==
  [mode |-> mode, apiKey |-> apiKey, jwtSecret |-> jwtSecret,
   jwtAudience |-> jwtAudience, jwtIssuer |-> jwtIssuer]
AuthConfigs ==
  { AuthConfigOf("none", Undefined, Undefined, Undefined, Undefined),
    AuthConfigOf("invalid", Some(<<"k","1">>), Some(<<"s","1">>), Undefined, Undefined) }
  \cup { AuthConfigOf("api-key", apiKey, Undefined, Undefined, Undefined) :
           apiKey \in {Undefined, Some(<< >>), Some(<<"k","1">>)} }
  \cup { AuthConfigOf("jwt", Undefined, jwtSecret, jwtAudience, jwtIssuer) :
           jwtSecret \in {Undefined, Some(<< >>), Some(<<"s","1">>)},
           jwtAudience \in {Undefined, Some(<<"a","1">>)},
           jwtIssuer \in {Undefined, Some(<<"i","1">>)} }

\* The Authorization headers of the requests.
AuthHeaders ==
  { Undefined, Some(<< >>), Some(<<"B","e","a","r","e","r">>), Some(<<"b","e","a","r","e","r"," ","k","1">>), Some(<<"B","E","A","R","E","R"," ","j","1">>),
    Some(<<"B","a","s","i","c"," ","k","1">>), Some(<<" ","B","e","a","r","e","r"," ","k","1">>), Some(<<"k","1">>), Some(Bearer) }
  \cup { Some(Bearer \o token) : token \in {<<"k","1">>, <<"k","2">>, <<"k","1"," ">>, <<"K","1">>} \cup Jwts }

\* jwt.verify is called in jwt mode for a bearer token when a secret is set.
VerifyCalled(config, authHeader) ==
  config.mode = "jwt" /\ hasBearerToken(authHeader) /\ Truthy(config.jwtSecret)

\* process.env: the ten variables that the two loaders read.  A variable is
\* unset (Undefined) or holds a string.
ProcessEnv(mcp, web) ==
  [MCP_AUTH_MODE |-> mcp.mode, MCP_AUTH_API_KEY |-> mcp.apiKey,
   MCP_AUTH_JWT_SECRET |-> mcp.jwtSecret, MCP_AUTH_JWT_AUDIENCE |-> mcp.jwtAudience,
   MCP_AUTH_JWT_ISSUER |-> mcp.jwtIssuer,
   WEB_AUTH_MODE |-> web.mode, WEB_AUTH_API_KEY |-> web.apiKey,
   WEB_AUTH_JWT_SECRET |-> web.jwtSecret, WEB_AUTH_JWT_AUDIENCE |-> web.jwtAudience,
   WEB_AUTH_JWT_ISSUER |-> web.jwtIssuer]

\* The values of a mode variable, and the values of the other four variables
\* of a family: all unset, all set, or key and secret set to the empty string.
ModeValues ==
  { Undefined, Some(<< >>), Some(<<"N","o","n","e">>),
    Some(<<"a","p","i","-","k","e","y">>), Some(<<"A","P","I","-","K","E","Y">>),
    Some(<<"J","w","T">>), Some(<<"j","w","t"," ">>), Some(<<"o","a","u","t","h">>) }
FamilySettings ==
  { [mode |-> mode, apiKey |-> rest[1], jwtSecret |-> rest[2],
     jwtAudience |-> rest[3], jwtIssuer |-> rest[4]] :
      mode \in ModeValues,
      rest \in { << Undefined, Undefined, Undefined, Undefined >>,
                 << Some(<<"k","1">>), Some(<<"s","1">>), Some(<<"a","1">>), Some(<<"i","1">>) >>,
                 << Some(<< >>), Some(<< >>), Undefined, Undefined >> } }

\* The mode that a lower-case mode string names.
ModeNames ==
  [none |-> <<"n","o","n","e">>, apiKey |-> <<"a","p","i","-","k","e","y">>,
   jwt |-> <<"j","w","t">>]
AuthModeOf(mode) ==
  CASE mode = ModeNames.none -> "none"
    [] mode = ModeNames.apiKey -> "api-key"
    [] mode = ModeNames.jwt -> "jwt"
    [] OTHER -> "invalid"

\* AuthConfig objects: a field that was never assigned is undefined.
ModeOnly(mode) == AuthConfigOf(mode, Undefined, Undefined, Undefined, Undefined)

\* (value || "none").toLowerCase()
modeOrNone(value) ==
  ToLowerCase(IF Truthy(value) THEN value.str ELSE ModeNames.none)

\* Faulty variant: the mode is compared as it is written.
loadMcpAuthConfigCaseSensitive(env) ==
  IF AuthModeOf(IF Truthy(env.MCP_AUTH_MODE) THEN env.MCP_AUTH_MODE.str ELSE ModeNames.none)
       = "invalid"
  THEN ModeOnly("none")
  ELSE CASE AuthModeOf(env.MCP_AUTH_MODE.str) = "api-key" ->
              AuthConfigOf("api-key", env.MCP_AUTH_API_KEY, Undefined, Undefined, Undefined)
         [] AuthModeOf(env.MCP_AUTH_MODE.str) = "jwt" ->
              AuthConfigOf("jwt", Undefined, env.MCP_AUTH_JWT_SECRET,
                           env.MCP_AUTH_JWT_AUDIENCE, env.MCP_AUTH_JWT_ISSUER)
         [] OTHER -> ModeOnly("none")

\* Faulty variant: without a key of its own the MCP family takes the Web key.
loadMcpAuthConfigSharedKey(env) ==
  IF AuthModeOf(modeOrNone(env.MCP_AUTH_MODE)) = "invalid" THEN ModeOnly("none")
  ELSE CASE AuthModeOf(modeOrNone(env.MCP_AUTH_MODE)) = "api-key" ->
              AuthConfigOf("api-key",
                           IF Truthy(env.MCP_AUTH_API_KEY) THEN env.MCP_AUTH_API_KEY
                           ELSE env.WEB_AUTH_API_KEY,
                           Undefined, Undefined, Undefined)
         [] AuthModeOf(modeOrNone(env.MCP_AUTH_MODE)) = "jwt" ->
              AuthConfigOf("jwt", Undefined, env.MCP_AUTH_JWT_SECRET,
                           env.MCP_AUTH_JWT_AUDIENCE, env.MCP_AUTH_JWT_ISSUER)
         [] OTHER -> ModeOnly("none")

loadMcpAuthConfig(env) ==
  IF AuthModeOf(modeOrNone(env.MCP_AUTH_MODE)) = "invalid" THEN ModeOnly("none")
  ELSE CASE AuthModeOf(modeOrNone(env.MCP_AUTH_MODE)) = "api-key" ->
              AuthConfigOf("api-key", env.MCP_AUTH_API_KEY, Undefined, Undefined, Undefined)
         [] AuthModeOf(modeOrNone(env.MCP_AUTH_MODE)) = "jwt" ->
              AuthConfigOf("jwt", Undefined, env.MCP_AUTH_JWT_SECRET,
                           env.MCP_AUTH_JWT_AUDIENCE, env.MCP_AUTH_JWT_ISSUER)
         [] OTHER -> ModeOnly("none")

loadWebAuthConfig(env) ==
  IF AuthModeOf(modeOrNone(env.WEB_AUTH_MODE)) = "invalid" THEN ModeOnly("none")
  ELSE CASE AuthModeOf(modeOrNone(env.WEB_AUTH_MODE)) = "api-key" ->
              AuthConfigOf("api-key", env.WEB_AUTH_API_KEY, Undefined, Undefined, Undefined)
         [] AuthModeOf(modeOrNone(env.WEB_AUTH_MODE)) = "jwt" ->
              AuthConfigOf("jwt", Undefined, env.WEB_AUTH_JWT_SECRET,
                           env.WEB_AUTH_JWT_AUDIENCE, env.WEB_AUTH_JWT_ISSUER)
         [] OTHER -> ModeOnly("none")

\* The handler of a route: mcpAuth on /mcp, webAuth on /api/*.
Routes == {"/mcp", "/api"}
RouteHeaders ==
  { Undefined, Some(<<"b","e","a","r","e","r"," ","k","1">>) }
  \cup { Some(Bearer \o token) : token \in {<<"k","1">>, <<"k","2">>, <<"j","1">>, <<"j","2">>} }
authConfigOfRoute(route, mcpAuthConfig, webAuthConfig) ==
  IF route = "/mcp" THEN mcpAuthConfig ELSE webAuthConfig

\* The server starts: both configurations are loaded from the environment and
\* a handler is created from each.
startServer(env) ==
  /\ call.name = "new"
  /\ call' = [name |-> "startServer", env |-> env,
              mcpAuthConfig |-> loadMcpAuthConfig(env),
              webAuthConfig |-> loadWebAuthConfig(env)]
  /\ ret' = NoValue
  /\ NotTheStore

\* A request to a route of the started server reaches the route's handler.
routeRequest(route, authHeader) ==
  /\ call.name \in {"startServer", "routeRequest"}
  /\ \E verified \in
        IF VerifyCalled(authConfigOfRoute(route, call.mcpAuthConfig, call.webAuthConfig),
                        authHeader)
        THEN jwtVerifyOutcomes(
               bearerToken(authHeader),
               authConfigOfRoute(route, call.mcpAuthConfig, call.webAuthConfig).jwtSecret.str,
               authConfigOfRoute(route, call.mcpAuthConfig, call.webAuthConfig).jwtAudience,
               authConfigOfRoute(route, call.mcpAuthConfig, call.webAuthConfig).jwtIssuer)
        ELSE {NoValue} :
       /\ call' = [name |-> "routeRequest", env |-> call.env,
                   mcpAuthConfig |-> call.mcpAuthConfig,
                   webAuthConfig |-> call.webAuthConfig,
                   route |-> route, authorization |-> authHeader, verified |-> verified]
       /\ ret' = Value(authHandler(
                   authConfigOfRoute(route, call.mcpAuthConfig, call.webAuthConfig),
                   authHeader, verified))
  /\ NotTheStore

createAuthHandler(config) ==
  /\ call.name = "new"
  /\ call' = [name |-> "createAuthHandler", config |-> config]
  /\ ret' = NoValue
  /\ NotTheStore

\* A request reaches the handler.
authHandlerCall(authHeader) ==
  /\ call.name \in {"createAuthHandler", "authHandler"}
  /\ \E verified \in IF VerifyCalled(call.config, authHeader)
                     THEN jwtVerifyOutcomes(bearerToken(authHeader), call.config.jwtSecret.str,
                                            call.config.jwtAudience, call.config.jwtIssuer)
                     ELSE {NoValue} :
       /\ call' = [name |-> "authHandler", config |-> call.config,
                   authorization |-> authHeader, verified |-> verified]
       /\ ret' = Value(authHandler(call.config, authHeader, verified))
  /\ NotTheStore

AuthNext ==
  \/ \E config \in AuthConfigs : createAuthHandler(config)
  \/ \E authHeader \in AuthHeaders : authHandlerCall(authHeader)
  \/ \E mcp \in FamilySettings, web \in FamilySettings : startServer(ProcessEnv(mcp, web))
  \/ \E route \in Routes, authHeader \in RouteHeaders : routeRequest(route, authHeader)

AuthSpec == Init /\ [][AuthNext]_vars

\* ------------------------------------------------------------------ claims
\* searchPolicies has returned a value (it neither threw nor is still running).
SearchReturned == call.name = "searchPolicies" /\ pc = "idle" /\ ret.kind = "value"

\* The place of the entry of policy id in the Map's insertion order.
StoredAt(id) == CHOOSE i \in 1..Len(policies) : policies[i].key = id

\* No whitespace-separated term of the query is longer than 2 characters
\* (so also: the query is empty or all white space).
AllTermsShort(query) ==
  ~\E i \in 1..(Len(query) - 2) : \A j \in i..(i + 2) : ~IsSpace(query[j])

\* The number of non-overlapping occurrences of the text q in s, counted
\* character for character from position i on, left to right.
RECURSIVE LiteralOccurrences(_, _, _)
LiteralOccurrences(s, q, i) ==
  IF i + Len(q) > Len(s) THEN 0
  ELSE IF SubSeq(s, i + 1, i + Len(q)) = q
       THEN 1 + LiteralOccurrences(s, q, i + Len(q))
       ELSE LiteralOccurrences(s, q, i + 1)

\* C1: the sequence returned by searchPolicies is ordered by non-increasing
\* relevanceScore, for every store, query and category.
C1_ResultsSortedByScore ==
  SearchReturned =>
    \A i \in 1..(Len(ret.val) - 1) :
       ret.val[i].relevanceScore >= ret.val[i + 1].relevanceScore

\* Two results of different scores, the better one stored later.
C1_Witness ==
  /\ SearchReturned
  /\ Len(ret.val) = 2
  /\ ret.val[1].relevanceScore > ret.val[2].relevanceScore
  /\ StoredAt(ret.val[1].policy.id) > StoredAt(ret.val[2].policy.id)

\* C2: searchPolicies returns the empty sequence, and throws nothing, when the
\* trimmed query is empty or all of its terms have length <= 2, whatever is
\* stored.
C2_ShortQueryReturnsEmpty ==
  (call.name = "searchPolicies" /\ AllTermsShort(call.query)) =>
    (pc = "idle" /\ ret = Value(<< >>))

\* "a b c" searched in a store holding a document titled "a b c".
C2_Witness ==
  /\ call.name = "searchPolicies"
  /\ call.query = QShortTerms
  /\ LET candidates == filterPoliciesByCategory(policies, call.category)
     IN \E i \in 1..Len(candidates) :
           Includes(ToLowerCase(candidates[i].title), ToLowerCase(call.query))
  /\ ret = Value(<< >>)

\* The score the three contributions add up to, in half points: 10 for the
\* whole query in the title, 1 per query term found in a section, 0.5 per
\* literal occurrence of the whole query in the content.
SumOfContributions(policy, query) ==
  LET q == Trim(ToLowerCase(query))
      terms == SelectSeq(SplitWhitespace(q), LAMBDA t : Len(t) > 2)
      inSection(s) ==
        Cardinality({i \in 1..Len(terms) :
           Includes(ToLowerCase(s.heading \o << " " >> \o s.content), terms[i])})
  IN (IF Includes(ToLowerCase(policy.title), q) THEN 20 ELSE 0)
     + 2 * SumSeq([i \in 1..Len(policy.sections) |-> inSection(policy.sections[i])])
     + LiteralOccurrences(ToLowerCase(policy.content), q, 0)

\* C3: the relevanceScore of every result is the title contribution plus the
\* section contribution plus 0.5 per literal occurrence of the query in the
\* content.
C3_ScoreIsSumOfContributions ==
  SearchReturned =>
    \A i \in 1..Len(ret.val) :
       ret.val[i].relevanceScore = SumOfContributions(ret.val[i].policy, call.query)

\* The scenario of C4: the store holds one document, titled "Encryption
\* Standards", with the two sections of the scenario and a content in which
\* "encryption" occurs exactly twice, and searchPolicies("encryption") is done.
EncryptionScenario ==
  /\ call.name = "searchPolicies" /\ pc = "idle"
  /\ call.query = QEncryption /\ ~call.category.some
  /\ Len(policies) = 1
  /\ policies[1].value.title = EncryptionDoc.title
  /\ [i \in 1..Len(policies[1].value.sections) |->
        << policies[1].value.sections[i].heading,
           policies[1].value.sections[i].content >>]
       = [i \in 1..Len(EncryptionDoc.sections) |->
            << EncryptionDoc.sections[i].heading, EncryptionDoc.sections[i].content >>]
  /\ LiteralOccurrences(ToLowerCase(policies[1].value.content), QEncryption, 0) = 2

\* C4 as amended: in the scenario, searchPolicies("encryption") returns exactly
\* one result, of relevanceScore 12 (24 half points: 10 + 1 + 2 * 0.5) and
\* matchedSections ["1. Purpose"].
C4_EncryptionScoreIsTwelve ==
  EncryptionScenario =>
    /\ ret.kind = "value"
    /\ Len(ret.val) = 1
    /\ ret.val[1].relevanceScore = 24
    /\ ret.val[1].matchedSections = << EncryptionDoc.sections[1].heading >>

C4_Witness == EncryptionScenario /\ ret.kind = "value" /\ Len(ret.val) = 1

\* C4 as claimed: the relevanceScore of that result is 11.5 (23 half points).
C4_EncryptionScoreIsElevenAndAHalf ==
  EncryptionScenario =>
    /\ ret.kind = "value"
    /\ Len(ret.val) = 1
    /\ ret.val[1].relevanceScore = 23
    /\ ret.val[1].matchedSections = << EncryptionDoc.sections[1].heading >>

\* The candidate has a title, section or content match for the query.
HasMatch(policy, query) ==
  \/ Includes(ToLowerCase(policy.title), queryLowerOf(query))
  \/ \E i \in 1..Len(policy.sections) :
        scoreSectionMatch(policy.sections[i], queryTermsOf(query)) > 0
  \/ exec(RegExpCompile(queryLowerOf(query)), ToLowerCase(policy.content), 0).found

\* C5: a stored document that passes the category filter is in the result of
\* searchPolicies exactly when its score is > 0, that is when it has a title,
\* section or content match, and then exactly once; every result has score > 0.
C5_ResultsAreThePositiveScores ==
  (SearchReturned /\ ~AllTermsShort(call.query)) =>
    LET candidates == filterPoliciesByCategory(policies, call.category)
        ResultsOf(id) == {j \in 1..Len(ret.val) : ret.val[j].policy.id = id}
    IN /\ \A i \in 1..Len(candidates) :
             Cardinality(ResultsOf(candidates[i].id))
               = IF HasMatch(candidates[i], call.query) THEN 1 ELSE 0
       /\ \A j \in 1..Len(ret.val) :
             /\ ret.val[j].relevanceScore > 0
             /\ \E i \in 1..Len(candidates) : candidates[i] = ret.val[j].policy

\* Two candidates, one returned and one (without any match) left out.
C5_Witness ==
  /\ SearchReturned /\ ~AllTermsShort(call.query)
  /\ Len(filterPoliciesByCategory(policies, call.category)) = 2
  /\ Len(ret.val) = 1
  /\ \E i \in 1..2 :
        ~HasMatch(filterPoliciesByCategory(policies, call.category)[i], call.query)

\* C6: when the counting loop of scoreContentMatches ends, contentMatches is
\* the number of non-overlapping literal occurrences of the lowercased query in
\* the lowercased content.
C6_ContentCountIsLiteral ==
  (pc = "scoring" /\ ~currentMatch.found) =>
    contentMatches =
      LiteralOccurrences(
        ToLowerCase(filterPoliciesByCategory(policies, call.category)[idx].content),
        queryLowerOf(call.query), 0)

\* C7: searchPolicies never throws, whatever the query.
C7_SearchNeverThrows ==
  (call.name = "searchPolicies" /\ pc = "idle") => ret.kind = "value"

\* C8: every iteration of the counting loop of scoreContentMatches makes
\* progress: it moves lastIndex forward, so the loop ends once lastIndex has
\* passed the end of the content.
C8_CountingLoopMakesProgress ==
  [][(pc = "scoring" /\ pc' = "scoring" /\ idx' = idx) => lastIndex' > lastIndex]_vars

\* C9: getPolicy(id) right after the addPolicy that returned id yields a
\* document with that id and with the title, content, sections, category,
\* sourceFile, effectiveDate and version passed to addPolicy.
C9_AddThenGetRoundTrip ==
  [][(call.name = "addPolicy" /\ call'.name = "getPolicy" /\ call'.id = ret.val.id) =>
       /\ ret'.kind = "value"
       /\ ret'.val.found
       /\ ret'.val.policy.id = ret.val.id
       /\ ret'.val.policy.title = call.input.parsedDoc.title
       /\ ret'.val.policy.content = call.input.parsedDoc.content
       /\ ret'.val.policy.sections = call.input.parsedDoc.sections
       /\ ret'.val.policy.category = call.input.category
       /\ ret'.val.policy.sourceFile = call.input.sourceFile
       /\ ret'.val.policy.effectiveDate = call.input.parsedDoc.metadata.effectiveDate
       /\ ret'.val.policy.version = call.input.parsedDoc.metadata.version]_vars

\* getPolicy of the id just returned by addPolicy, for a document with a
\* category and sections.
C9_Witness ==
  /\ call.name = "getPolicy" /\ call.justAdded
  /\ ret.val.found
  /\ ret.val.policy.category.some
  /\ Len(ret.val.policy.sections) > 0

\* C10: with an identifier generator that never repeats, every id returned by
\* addPolicy differs from all ids returned before (also of documents removed
\* or cleared since), addPolicy adds an entry and changes no other, and every
\* stored document is held under the key equal to its id.
C10_IdsFreshAndKeysAreIds ==
  /\ [](\A i \in 1..Len(policies) : policies[i].key = policies[i].value.id)
  /\ [][issued' # issued =>
          /\ ret'.val.id \notin returned
          /\ Len(policies') = Len(policies) + 1
          /\ \A i \in 1..Len(policies) : policies'[i] = policies[i]
          /\ policies'[Len(policies')].value = ret'.val]_vars

\* An addPolicy after the document added before it was removed or cleared.
C10_Witness ==
  /\ call.name = "addPolicy"
  /\ Cardinality(returned) = 2
  /\ Len(policies) = 1

\* C11: removePolicy(id) returns true exactly when id is stored when it is
\* called; after a call that returned true the id is no longer stored (getPolicy
\* finds nothing) and count is one less; on an unknown id it returns false and
\* throws nothing.
C11_RemoveReturnsWhetherStored ==
  [][call'.name = "removePolicy" =>
       /\ ret' = Value(MapHas(policies, call'.id))
       /\ MapHas(policies, call'.id) =>
             /\ ~MapHas(policies', call'.id)
             /\ countResult(policies') = countResult(policies) - 1
       /\ (call.name = "removePolicy" /\ call.id = call'.id) => ret' = Value(FALSE)]_vars

\* A removePolicy that returned true.
C11_Witness ==
  /\ call.name = "removePolicy"
  /\ ret = Value(TRUE)
  /\ ~MapHas(policies, call.id)

\* C12: removePolicy(id) changes no other entry: every other id is stored
\* after the call exactly when it was before, with the same document, and a
\* call that returns false leaves the whole Map as it was.
C12_RemoveLeavesOthers ==
  [][call'.name = "removePolicy" =>
       /\ \A other \in IDs \ {call'.id} :
             /\ MapHas(policies', other) = MapHas(policies, other)
             /\ MapHas(policies, other) =>
                   MapGet(policies', other) = MapGet(policies, other)
       /\ ret' = Value(FALSE) => policies' = policies]_vars

\* The document added last was removed and the one added before it is left.
C12_Witness ==
  /\ call.name = "removePolicy"
  /\ ret = Value(TRUE)
  /\ Len(policies) = 1
  /\ policies[1].key < call.id

\* C13: clear() empties the store whatever it holds and throws nothing: after
\* it count is 0 and getAllPolicies is empty; a removePolicy right after it
\* returns false for every id, and a second clear leaves the same empty store.
C13_ClearEmptiesTheStore ==
  [][(call'.name = "clear" =>
         (ret' = NoValue /\ countResult(policies') = 0
                         /\ getAllPolicies(policies') = << >>))
     /\ ((call.name = "clear" /\ call'.name = "removePolicy") => ret' = Value(FALSE))
     /\ ((call.name = "clear" /\ call'.name = "clear") => policies' = policies)]_vars

\* clear() called on a store holding two documents.
C13_Witness ==
  /\ call.name = "clear"
  /\ call.sizeBefore = 2
  /\ policies = << >>

\* C14: count is the number of documents getAllPolicies returns, and that is
\* the number of addPolicy calls since the last clear minus the number of
\* removePolicy calls since then that returned true.
C14_CountIsAddsMinusRemoves ==
  /\ countResult(policies) = Len(getAllPolicies(policies))
  /\ countResult(policies) = added - removed

\* Two documents added and one of them removed since the last clear.
C14_Witness ==
  /\ added = 2
  /\ removed = 1
  /\ countResult(policies) = 1

\* The operations of the store that only read it.
ReadOperations ==
  {"getPolicy", "getAllPolicies", "listPolicies", "searchPolicies", "count"}

\* The number of matches a counting loop that ends finds from lastIndex li on.
RECURSIVE CountExec(_, _, _)
CountExec(re, s, li) ==
  LET m == exec(re, s, li)
  IN IF m.found THEN 1 + CountExec(re, s, m.end) ELSE 0

\* What a searchPolicies(query, category) that returns, returns on the store pols.
SearchResultOn(pols, query, category) ==
  LET queryLower == queryLowerOf(query)
      queryTerms == queryTermsOf(query)
      candidates == filterPoliciesByCategory(pols, category)
      scored == [i \in 1..Len(candidates) |->
                   scorePolicy(candidates[i], queryLower, queryTerms,
                               CountExec(RegExpCompile(queryLower),
                                         ToLowerCase(candidates[i].content), 0))]
  IN IF isEmptyQuery(queryLower, queryTerms) THEN << >>
     ELSE sortResults(SelectSeq(scored, isRelevant))

\* C15: every step of getPolicy, getAllPolicies, listPolicies, searchPolicies
\* and count leaves the Map as it was, and what listPolicies or searchPolicies
\* returned is what the same call returns on the store as it is after the
\* call: a second call with the same arguments yields an equal result.
C15_ReadsLeaveStoreUnchanged ==
  /\ [][call'.name \in ReadOperations => policies' = policies]_vars
  /\ [](call.name = "listPolicies" =>
          ret = Value(listPoliciesResult(policies, call.category)))
  /\ [](SearchReturned =>
          ret = Value(SearchResultOn(policies, call.query, call.category)))

\* A listPolicies whose filter left a stored document out.
C15_Witness ==
  /\ call.name = "listPolicies"
  /\ call.category.some
  /\ Len(ret.val) = 1
  /\ Len(policies) = 2

\* The category of the document p equals the category c ignoring case; a
\* document without a category equals none.
CategoryEquals(p, c) ==
  p.category.some /\ ToLowerCase(p.category.str) = ToLowerCase(c)

\* What listPolicies returned holds exactly one summary per stored document
\* that is wanted and none of any other, and every summary carries the id,
\* title, sourceFile, category and extractedAt of its document and the number
\* of its sections.
ListedExactly(Wanted(_)) ==
  /\ ret.kind = "value"
  /\ \A i \in 1..Len(policies) :
        Cardinality({j \in 1..Len(ret.val) : ret.val[j].id = policies[i].key})
          = IF Wanted(policies[i].value) THEN 1 ELSE 0
  /\ \A j \in 1..Len(ret.val) :
        /\ MapHas(policies, ret.val[j].id)
        /\ LET p == MapGet(policies, ret.val[j].id)
           IN /\ ret.val[j].sectionCount = Len(p.sections)
              /\ ret.val[j].title = p.title
              /\ ret.val[j].sourceFile = p.sourceFile
              /\ ret.val[j].category = p.category
              /\ ret.val[j].extractedAt = p.extractedAt

\* C16 as claimed: listPolicies(category) returns one summary per stored
\* document whose category equals the given one ignoring case, and one per
\* stored document when no category is given; sectionCount is the number of
\* sections of the document.
C16_ListIsTheGivenCategory ==
  call.name = "listPolicies" =>
    LET Wanted(p) == call.category.some => CategoryEquals(p, call.category.str)
    IN ListedExactly(Wanted)

\* C16 as amended: the same, for a given category that is not the empty
\* string; the empty string is treated as no category given, and every stored
\* document is listed.
C16_ListIsTheNonEmptyCategory ==
  call.name = "listPolicies" =>
    LET Wanted(p) == (call.category.some /\ call.category.str # << >>)
                        => CategoryEquals(p, call.category.str)
    IN ListedExactly(Wanted)

\* listPolicies("SEC") on a store holding a document of category "Sec" and one
\* without a category.
C16_Witness ==
  /\ call.name = "listPolicies"
  /\ call.category.some /\ call.category.str # << >>
  /\ Len(ret.val) = 1
  /\ ret.val[1].category = Some(Sec)
  /\ ret.val[1].category.str # call.category.str
  /\ \E i \in 1..Len(policies) : ~policies[i].value.category.some

\* C17 as claimed: when a category is given to searchPolicies, every result's
\* document has a category equal to it ignoring case.
C17_ResultsAreOfTheGivenCategory ==
  (SearchReturned /\ call.category.some) =>
    \A j \in 1..Len(ret.val) : CategoryEquals(ret.val[j].policy, call.category.str)

\* C17 as amended: the same, for a given category that is not the empty
\* string (the empty string is treated as no category given).
C17_ResultsAreOfTheNonEmptyCategory ==
  (SearchReturned /\ call.category.some /\ call.category.str # << >>) =>
    \A j \in 1..Len(ret.val) : CategoryEquals(ret.val[j].policy, call.category.str)

\* A search in category "sec" that returned the document of category "Sec"
\* and left out a stored document that matches the query but has no category.
C17_Witness ==
  /\ SearchReturned
  /\ call.category.some /\ call.category.str # << >>
  /\ Len(ret.val) = 1
  /\ \E i \in 1..Len(policies) :
        /\ ~policies[i].value.category.some
        /\ HasMatch(policies[i].value, call.query)

\* At least one term of the query, of more than 2 characters, occurs in the
\* lowercased "<heading> <content>" of the section.
SectionHasTerm(section, query) ==
  LET terms == SplitWhitespace(Trim(ToLowerCase(query)))
      text == ToLowerCase(section.heading \o << " " >> \o section.content)
  IN \E i \in 1..Len(terms) : Len(terms[i]) > 2 /\ Includes(text, terms[i])

\* C18: the matchedSections of every result are the headings, as stored and in
\* the order of the document's sections, of exactly the sections in which at
\* least one query term occurs, each heading once.
C18_MatchedSectionsAreTheSectionsWithATerm ==
  SearchReturned =>
    \A j \in 1..Len(ret.val) :
       LET with == SelectSeq(ret.val[j].policy.sections,
                             LAMBDA s : SectionHasTerm(s, call.query))
       IN ret.val[j].matchedSections = [i \in 1..Len(with) |-> with[i].heading]

\* A result with a section in which two terms of the query occur, a section
\* in which none does, and the heading of the first, not lowercased, listed.
C18_Witness ==
  /\ SearchReturned
  /\ \E j \in 1..Len(ret.val) :
        /\ Len(ret.val[j].matchedSections) = 1
        /\ ToLowerCase(ret.val[j].matchedSections[1]) # ret.val[j].matchedSections[1]
        /\ \E i \in 1..Len(ret.val[j].policy.sections) :
              ~SectionHasTerm(ret.val[j].policy.sections[i], call.query)
        /\ \E i \in 1..Len(ret.val[j].policy.sections) :
              scoreSectionMatch(ret.val[j].policy.sections[i],
                                queryTermsOf(call.query)) = 2

\* The document is whole: it has every field that addPolicy was passed for
\* some upload or scan, the id it is stored under and a time of extraction.
WholeDocument(p, id) ==
  /\ p.id = id
  /\ p.extractedAt \in Times
  /\ \E input \in ApiInputs :
        /\ p.title = input.parsedDoc.title
        /\ p.content = input.parsedDoc.content
        /\ p.sections = input.parsedDoc.sections
        /\ p.category = input.category
        /\ p.sourceFile = input.sourceFile
        /\ p.effectiveDate = input.parsedDoc.metadata.effectiveDate
        /\ p.version = input.parsedDoc.metadata.version

\* C19: whatever the interleaving of the upload and scan handlers (suspended
\* at their awaits) with the get, list, search and delete handlers, every
\* document in the store is whole, and so is every document that a get, a
\* list or a search hands out; a document being added is either absent or
\* whole.
C19_NoPartialDocumentVisible ==
  /\ \A i \in 1..Len(policies) : WholeDocument(policies[i].value, policies[i].key)
  /\ (call.name = "getPolicy" /\ ret.val.found) =>
        WholeDocument(ret.val.policy, call.id)
  /\ call.name = "listPolicies" =>
        \A j \in 1..Len(ret.val) :
           \E input \in ApiInputs :
              /\ ret.val[j].title = input.parsedDoc.title
              /\ ret.val[j].sectionCount = Len(input.parsedDoc.sections)
              /\ ret.val[j].category = input.category
  /\ SearchReturned =>
        \A j \in 1..Len(ret.val) :
           WholeDocument(ret.val[j].policy, ret.val[j].policy.id)

\* A get that found the document (with sections and a category) of an upload
\* that is still suspended at its `await unlink`.
C19_Witness ==
  /\ call.name = "getPolicy" /\ ret.val.found
  /\ Len(ret.val.policy.sections) > 0
  /\ ret.val.policy.category.some
  /\ \E slot \in Slots :
        /\ uploads[slot].stage = "unlinking"
        /\ uploads[slot].policy.id = call.id

\* A search handler has answered.
SearchAnswered == response.to.op \in {"GET /api/search", "search_policies"}

\* The query of the search request is missing or the empty string.
EmptyOrMissingQuery(req) == ~req.query.some \/ req.query.str = << >>

\* The answer is an empty result set and not an error.
EmptyResultSet ==
  IF response.to.op = "GET /api/search"
  THEN /\ response.status = 200
       /\ response.body.total = 0
       /\ response.body.results = << >>
  ELSE /\ ~response.isError
       /\ response.text = "No policies found matching"

\* C20 as claimed: GET /api/search and search_policies answer an empty or
\* missing query with an empty result set, not with an error.
C20_EmptyQueryAnsweredWithEmptySet ==
  (SearchAnswered /\ EmptyOrMissingQuery(response.to)) => EmptyResultSet

\* C20 as amended: GET /api/search answers an empty or missing query with
\* status 400 and the error "Query parameter required", and search_policies
\* answers an empty query with isError and "Error: Query is required",
\* without calling searchPolicies; a query that is not empty but has no term
\* of more than 2 characters is answered with an empty result set, not an
\* error.
C20_EmptyQueryAnsweredWithError ==
  /\ (SearchAnswered /\ EmptyOrMissingQuery(response.to)) =>
        IF response.to.op = "GET /api/search"
        THEN /\ response.status = 400
             /\ response.body = [error |-> "Query parameter required"]
        ELSE /\ response.isError
             /\ response.text = "Error: Query is required"
  /\ (SearchAnswered /\ ~EmptyOrMissingQuery(response.to)
                     /\ AllTermsShort(response.to.query.str)) => EmptyResultSet

\* GET /api/search without a query, answered while a document is stored.
C20_Witness ==
  /\ response.to.op = "GET /api/search"
  /\ ~response.to.query.some
  /\ response.status = 400
  /\ Len(policies) > 0

\* C21: getAllPolicies returns a new array on every call: pushing to,
\* popping from or reversing a returned array leaves the store as it was, and
\* every getAllPolicies returns the stored policies in insertion order, whatever
\* was done to the arrays returned before.
C21_ReturnedArrayIsNotTheStore ==
  [][/\ (call'.name = "editReturnedArray") =>
          (/\ policies' = policies
           /\ getAllPolicies(policies') = getAllPolicies(policies)
           /\ listPoliciesResult(policies', Undefined) = listPoliciesResult(policies, Undefined)
           /\ countResult(policies') = countResult(policies))
     /\ (call'.name = "getAllPolicies") =>
          (ret' = Value(MapValues(policies')))]_vars

C21_ReturnedArrayIsNotTheStore_Witness ==
  /\ call.name = "editReturnedArray"
  /\ Len(policies) = 2
  /\ ret.val # getAllPolicies(policies)

\* The documents made with Between: the line under test, and what
\* extractSections returns when it starts a section and when it does not.
IsProbe(content) ==
  LET lines == Split(content, "\n")
  IN Len(lines) = 4 /\ lines[1] = <<"1"," ","A">> /\ lines[2] = <<"b">> /\ lines[4] = <<"c">>
ProbeLine == Split(call.document.content, "\n")[3]
ProbeCall == call.name = "extractSections" /\ IsProbe(call.document.content)
LineIsSection(heading, level) ==
  ret.val = << [heading |-> <<"1"," ","A">>, content |-> <<"b">>, level |-> 1],
               [heading |-> heading, content |-> <<"c">>, level |-> level] >>
LineIsContent(line) ==
  ret.val = << [heading |-> <<"1"," ","A">>,
                content |-> <<"b">> \o <<"\n">> \o line \o <<"\n">> \o <<"c">>,
                level |-> 1] >>

\* A line of the numeric form: up to six groups of digits separated by dots, an
\* optional '.', ':' or '-', then a label.  NumberPrefix is its groups with the
\* dots between them.
NumberRun(line) ==
  LET others == {k \in 1..Len(line) : line[k] \notin Digits \cup {"."}}
  IN IF others = {} THEN Len(line) ELSE SetMin(others) - 1
NumberPrefix(line) ==
  LET run == SubSeq(line, 1, NumberRun(line))
  IN IF run # << >> /\ run[Len(run)] = "." THEN SubSeq(run, 1, Len(run) - 1) ELSE run
IsNumericHeadingLine(line) ==
  LET prefix == NumberPrefix(line)
  IN /\ prefix # << >>
     /\ prefix[1] \in Digits /\ prefix[Len(prefix)] \in Digits
     /\ \A k \in 1..(Len(prefix) - 1) : ~(prefix[k] = "." /\ prefix[k + 1] = ".")
     /\ CountDots(prefix) <= 5
     /\ NumberRun(line) < Len(line)

\* C22: a line of the numeric form that extractSections accepts as a heading
\* starts a section whose level is the number of dots in its numeric prefix
\* (without one trailing punctuation character) plus one, and every section
\* of every text has a level from 1 to 6.
C22_LevelIsDotsPlusOne ==
  (call.name = "extractSections") =>
    /\ \A i \in 1..Len(ret.val) : ret.val[i].level \in 1..6
    /\ (IsProbe(call.document.content) /\ IsNumericHeadingLine(ProbeLine) /\ Len(ret.val) = 2) =>
         (ret.val[2].level = CountDots(NumberPrefix(ProbeLine)) + 1)

C22_LevelIsDotsPlusOne_Witness ==
  /\ ProbeCall
  /\ ProbeLine = <<"1",".","2",".","3"," ","F","o","o">>
  /\ LineIsSection(<<"1",".","2",".","3"," ","F","o","o">>, 3)

\* C23: a line classified as a heading starts a section exactly when its
\* composed heading has more than 2 and fewer than 200 characters; otherwise
\* the line is a content line of the section before it.
C23_HeadingLengthLimits ==
  ProbeCall =>
    LET info == tryMatchHeading(ProbeLine)
    IN info.some =>
         IF Len(info.heading) > 2 /\ Len(info.heading) < 200
         THEN LineIsSection(info.heading, info.level)
         ELSE LineIsContent(ProbeLine)

C23_HeadingLengthLimits_Witness ==
  /\ ProbeCall
  /\ ProbeLine = <<"1","."," ">> \o Repeat("x", 197)
  /\ Len(tryMatchHeading(ProbeLine).heading) = 200
  /\ LineIsContent(ProbeLine)

\* The number of headings of a text that are followed by a line of content
\* before the next heading or the end of the text.
HeadingsWithContent(content, IsHeading(_)) ==
  LET lines == Split(content, "\n")
      filled == {k \in 1..Len(lines) : Trim(lines[k]) # << >>}
      headings == {k \in filled : IsHeading(Trim(lines[k]))}
  IN Cardinality({k \in headings :
                    \E j \in filled \ headings :
                      j > k /\ \A m \in headings : ~(k < m /\ m < j)})
IsSectionHeading(line) == isHeadingAccepted(tryMatchHeading(line))
IsMarkdownHeading(line) == regexExec(headingRegex, line).ok

\* C24: every section that extractSections or extractMarkdownSections returns
\* has content that is not empty after trimming, and the sections returned are
\* as many as the headings followed by a content line: a heading without
\* content yields no section.
C24_NoSectionWithoutContent ==
  /\ (call.name \in {"extractSections", "extractMarkdownSections"}) =>
       (\A i \in 1..Len(ret.val) : Trim(ret.val[i].content) # << >>)
  /\ (call.name = "extractSections") =>
       (Len(ret.val) = HeadingsWithContent(call.document.content, IsSectionHeading))
  /\ (call.name = "extractMarkdownSections") =>
       (Len(ret.val) = HeadingsWithContent(call.document.content, IsMarkdownHeading))

C24_NoSectionWithoutContent_Witness ==
  /\ call.name = "extractSections"
  /\ Includes(call.document.content, <<"2","."," ","S","e","c","o","n","d"," ","S","e","c","t","i","o","n">>)
  /\ Len(ret.val) = 1
  /\ ret.val[1].heading = <<"3","."," ","T","h","i","r","d"," ","S","e","c","t","i","o","n">>

\* A trimmed line of capital letters and spaces.
IsCapsLine(line) ==
  /\ line # << >>
  /\ \A k \in 1..Len(line) : IsUpper(line[k]) \/ line[k] = " "
  /\ line[1] # " " /\ line[Len(line)] # " "

\* The line with the spaces after a first word of two to four letters
\* replaced by one space, when at least two characters follow them.
OneSpaceAfterShortWord(line) ==
  LET spaces == {k \in 1..Len(line) : line[k] = " "}
      word == SetMin(spaces) - 1
      next == SetMin({k \in (word + 1)..Len(line) : line[k] # " "})
  IN IF spaces # {} /\ word \in 2..4 /\ Len(line) - next >= 1
     THEN SubSeq(line, 1, word) \o <<" ">> \o SubSeq(line, next, Len(line))
     ELSE line

\* C25 as stated: every line of 4 to 104 capital letters and spaces starts a
\* section of level 1 whose heading is exactly that line.
C25_CapsLineUpTo104IsItsHeading ==
  (ProbeCall /\ IsCapsLine(ProbeLine) /\ Len(ProbeLine) >= 4 /\ Len(ProbeLine) <= 104) =>
    LineIsSection(ProbeLine, 1)

\* C25, amended: every line of 4 to 101 capital letters and spaces starts a
\* section of level 1; its heading is that line, with the spaces after a first
\* word of two to four letters replaced by one space when at least two
\* characters follow them.
C25_CapsLineUpTo101IsAHeading ==
  (ProbeCall /\ IsCapsLine(ProbeLine) /\ Len(ProbeLine) >= 4 /\ Len(ProbeLine) <= 101) =>
    LineIsSection(OneSpaceAfterShortWord(ProbeLine), 1)

C25_CapsLineUpTo101IsAHeading_Witness ==
  /\ ProbeCall
  /\ ProbeLine = Repeat("A", 101)
  /\ LineIsSection(ProbeLine, 1)

\* C26: the extractors return a value for every text: extractSections a
\* sequence of sections, extractMetadata a record, extractTitle a string.  For
\* a text without a heading line the sections are empty; for the empty text
\* the sections are empty, the metadata has no date and no version, and the
\* title is the file name without its directory and extension.
C26_ExtractorsAlwaysReturn ==
  /\ (call.name = "extractSections") =>
       /\ ret.kind = "value"
       /\ \A i \in 1..Len(ret.val) :
            DOMAIN ret.val[i] = {"heading", "content", "level"}
       /\ (\A line \in {Trim(l) : l \in {Split(call.document.content, "\n")[k] :
                                    k \in 1..Len(Split(call.document.content, "\n"))}} :
             ~tryMatchHeading(line).some) => (ret.val = << >>)
       /\ (call.document.content = << >>) => (ret.val = << >>)
  /\ (call.name = "extractMetadata") =>
       /\ ret.kind = "value"
       /\ DOMAIN ret.val = {"pageCount", "effectiveDate", "version"}
       /\ ret.val.pageCount = call.document.pageCount
       /\ (call.document.content = << >>) =>
            (ret.val.effectiveDate = Undefined /\ ret.val.version = Undefined)
  /\ (call.name = "extractTitle") =>
       /\ ret.kind = "value"
       /\ \A i \in 1..Len(ret.val) : ret.val[i] \in STRING
       /\ (call.document.content = << >>) =>
            (ret.val = CASE call.document.filePath = <<"/","d","o","c","s","/","p","o","l","i","c","y",".","P","D","F">> -> <<"p","o","l","i","c","y">>
                         [] call.document.filePath = <<"n","o","t","e","s",".","m","d">> -> <<"n","o","t","e","s">>
                         [] call.document.filePath = <<"d","i","r","/">> -> <<"d","i","r","/">>
                         [] call.document.filePath = <<"a","/","b",".","d","o","c","x",".","t","x","t">> -> <<"b",".","d","o","c","x",".","t","x","t">>)

C26_ExtractorsAlwaysReturn_Witness ==
  /\ call.name = "extractTitle"
  /\ call.document.content = << >>
  /\ call.document.filePath = <<"/","d","o","c","s","/","p","o","l","i","c","y",".","P","D","F">>
  /\ ret = Value(<<"p","o","l","i","c","y">>)

\* The request just handled, and what the handler did with it.
AuthHandled == call.name = "authHandler"
Answered(status, message) ==
  ~ret.val.next /\ ~ret.val.auth.set /\ ret.val.status = status /\ ret.val.message = message
\* The Authorization header is present and begins with "Bearer ".
BeginsWithBearer(header) ==
  /\ header.some
  /\ Len(header.str) >= 7
  /\ SubSeq(header.str, 1, 7) = <<"B","e","a","r","e","r"," ">>

\* C27: in mode "none" the handler calls next() for every request, whatever
\* its headers, sets auth to {authenticated: false} and sends no response.
C27_NoneModePassesEveryRequest ==
  (AuthHandled /\ call.config.mode = "none") =>
    /\ ret.val.next
    /\ ret.val.auth.set /\ ~ret.val.auth.authenticated
    /\ ret.val.auth.userId = Undefined /\ ~ret.val.auth.scopes.some
    /\ ret.val.status = 0

C27_NoneModePassesEveryRequest_Witness ==
  /\ AuthHandled /\ call.config.mode = "none"
  /\ call.authorization = Some(<<"B","e","a","r","e","r"," ","k","2">>)
  /\ ret.val.next /\ ret.val.status = 0

\* C28: in the modes api-key and jwt, a request whose Authorization header is
\* absent, empty or does not begin with exactly "Bearer " is answered with 401
\* and next() is not called, whatever key or secret is configured.
C28_NoBearerIs401 ==
  (AuthHandled /\ call.config.mode \in {"api-key", "jwt"}
     /\ ~BeginsWithBearer(call.authorization)) =>
    Answered(401, "Missing or invalid Authorization header. Expected: Authorization: Bearer <token>")

C28_NoBearerIs401_Witness ==
  /\ AuthHandled /\ call.config.mode = "api-key" /\ call.config.apiKey = Some(<<"k","1">>)
  /\ call.authorization = Some(<<"b","e","a","r","e","r"," ","k","1">>)
  /\ ret.val.status = 401 /\ ~ret.val.next

\* C29: in api-key mode with a key configured, next() is called, with
\* auth.authenticated true, exactly when the header is "Bearer " followed by
\* the key; every other bearer token, the empty one and a valid JWT included,
\* is answered 401 "Invalid API key".  Without a key every bearer request is
\* answered 500 and none is authenticated.
C29_ApiKeyMustEqualTheKey ==
  (AuthHandled /\ call.config.mode = "api-key") =>
    IF call.config.apiKey.some /\ call.config.apiKey.str # << >>
    THEN /\ ret.val.next <=> (call.authorization = Some(<<"B","e","a","r","e","r"," ">> \o call.config.apiKey.str))
         /\ ret.val.next => (ret.val.auth.set /\ ret.val.auth.authenticated /\ ret.val.status = 0)
         /\ (BeginsWithBearer(call.authorization) /\ ~ret.val.next) =>
              Answered(401, "Invalid API key")
    ELSE /\ ~ret.val.next /\ ~ret.val.auth.set
         /\ BeginsWithBearer(call.authorization) =>
              Answered(500, "Authentication not properly configured")

C29_ApiKeyMustEqualTheKey_Witness ==
  /\ AuthHandled /\ call.config.mode = "api-key" /\ call.config.apiKey = Some(<<"k","1">>)
  /\ call.authorization = Some(<<"B","e","a","r","e","r"," ","j","1">>)
  /\ Answered(401, "Invalid API key")

\* The token of the request verifies against the configuration: it is signed
\* with the secret, has not expired, and has the audience and the issuer that
\* are configured.
TokenVerifies ==
  LET token == SubSeq(call.authorization.str, 8, Len(call.authorization.str))
  IN /\ token \in Jwts
     /\ JwtOf(token).signedWith = call.config.jwtSecret.str
     /\ ~JwtOf(token).expired
     /\ call.config.jwtAudience.some => (JwtOf(token).aud = call.config.jwtAudience.str)
     /\ call.config.jwtIssuer.some => (JwtOf(token).iss = call.config.jwtIssuer.str)

\* C30: in jwt mode a bearer request without a configured secret is answered
\* 500 "Authentication not properly configured"; with a secret, next() is
\* called only when jwt.verify succeeded, which needs a token that verifies
\* against the secret, the audience and the issuer; an expired token is
\* answered 401 "Token has expired", any other invalid token 401 "Invalid
\* token", and any other failure of jwt.verify 500 "Token verification failed".
C30_JwtMustVerify ==
  (AuthHandled /\ call.config.mode = "jwt" /\ BeginsWithBearer(call.authorization)) =>
    IF ~(call.config.jwtSecret.some /\ call.config.jwtSecret.str # << >>)
    THEN Answered(500, "Authentication not properly configured")
    ELSE /\ ret.val.next <=> (call.verified.kind = "value")
         /\ ret.val.next =>
              (TokenVerifies /\ ret.val.auth.set /\ ret.val.auth.authenticated
                 /\ ret.val.status = 0)
         /\ (call.verified = Throws("TokenExpiredError")) => Answered(401, "Token has expired")
         /\ (call.verified = Throws("JsonWebTokenError")) => Answered(401, "Invalid token")
         /\ (call.verified = Throws("Error")) => Answered(500, "Token verification failed")
         /\ (~TokenVerifies) => ~ret.val.next

C30_JwtMustVerify_Witness ==
  /\ AuthHandled /\ call.config.mode = "jwt" /\ call.config.jwtSecret = Some(<<"s","1">>)
  /\ call.authorization = Some(<<"B","e","a","r","e","r"," ","j","2">>)
  /\ Answered(401, "Token has expired")

\* The server has loaded its two configurations from call.env.
ServerStarted == call.name \in {"startServer", "routeRequest"}

\* The mode that a mode variable stands for: the one of none, api-key and jwt
\* that it spells in any mix of cases, none otherwise.
ModeSpelled(value) ==
  IF ~value.some THEN "none"
  ELSE IF Len(value.str) = 7
          /\ \A i \in 1..7 : ToLowerChar(value.str[i]) = <<"a","p","i","-","k","e","y">>[i]
  THEN "api-key"
  ELSE IF Len(value.str) = 3 /\ \A i \in 1..3 : ToLowerChar(value.str[i]) = <<"j","w","t">>[i]
  THEN "jwt"
  ELSE "none"

\* The variable holds a string that spells none of the three modes.
SpellsNoMode(value) ==
  /\ value.some
  /\ ~(Len(value.str) = 4 /\ \A i \in 1..4 : ToLowerChar(value.str[i]) = <<"n","o","n","e">>[i])
  /\ ModeSpelled(value) = "none"

\* C31: both loaders read the mode without regard to case, yield mode "none"
\* when the mode variable is unset, and yield the bare configuration
\* {mode: "none"} for every value that is not none, api-key or jwt.
C31_ModeIsReadCaseInsensitively ==
  ServerStarted =>
    /\ call.mcpAuthConfig.mode = ModeSpelled(call.env.MCP_AUTH_MODE)
    /\ call.webAuthConfig.mode = ModeSpelled(call.env.WEB_AUTH_MODE)
    /\ (~call.env.MCP_AUTH_MODE.some \/ SpellsNoMode(call.env.MCP_AUTH_MODE)) =>
         call.mcpAuthConfig = [mode |-> "none", apiKey |-> Undefined, jwtSecret |-> Undefined,
                               jwtAudience |-> Undefined, jwtIssuer |-> Undefined]
    /\ (~call.env.WEB_AUTH_MODE.some \/ SpellsNoMode(call.env.WEB_AUTH_MODE)) =>
         call.webAuthConfig = [mode |-> "none", apiKey |-> Undefined, jwtSecret |-> Undefined,
                               jwtAudience |-> Undefined, jwtIssuer |-> Undefined]

\* MCP_AUTH_MODE=JwT with a secret gives mode jwt, WEB_AUTH_MODE=oauth with a
\* key set gives no authentication.
C31_ModeIsReadCaseInsensitively_Witness ==
  /\ ServerStarted
  /\ call.env.MCP_AUTH_MODE = Some(<<"J","w","T">>)
  /\ call.mcpAuthConfig.mode = "jwt"
  /\ call.mcpAuthConfig.jwtSecret = Some(<<"s","1">>)
  /\ call.env.WEB_AUTH_MODE = Some(<<"o","a","u","t","h">>)
  /\ call.env.WEB_AUTH_API_KEY = Some(<<"k","1">>)
  /\ call.webAuthConfig.mode = "none"

\* The environment with the variables of one family replaced.
WithWebSettings(env, web) ==
  [env EXCEPT !.WEB_AUTH_MODE = web.mode, !.WEB_AUTH_API_KEY = web.apiKey,
              !.WEB_AUTH_JWT_SECRET = web.jwtSecret, !.WEB_AUTH_JWT_AUDIENCE = web.jwtAudience,
              !.WEB_AUTH_JWT_ISSUER = web.jwtIssuer]
WithMcpSettings(env, mcp) ==
  [env EXCEPT !.MCP_AUTH_MODE = mcp.mode, !.MCP_AUTH_API_KEY = mcp.apiKey,
              !.MCP_AUTH_JWT_SECRET = mcp.jwtSecret, !.MCP_AUTH_JWT_AUDIENCE = mcp.jwtAudience,
              !.MCP_AUTH_JWT_ISSUER = mcp.jwtIssuer]

\* C32: the MCP configuration and what the handler does with a /mcp request
\* are the same in every run that differs from this one only in the WEB_AUTH_*
\* variables, and the Web configuration and what the handler does with an
\* /api request the same in every run that differs only in the MCP_AUTH_*
\* variables.
C32_FamiliesAreIndependent ==
  ServerStarted =>
    \A other \in FamilySettings :
      /\ loadMcpAuthConfig(WithWebSettings(call.env, other)) = call.mcpAuthConfig
      /\ loadWebAuthConfig(WithMcpSettings(call.env, other)) = call.webAuthConfig
      /\ (call.name = "routeRequest" /\ call.route = "/mcp") =>
           ret.val = authHandler(loadMcpAuthConfig(WithWebSettings(call.env, other)),
                                 call.authorization, call.verified)
      /\ (call.name = "routeRequest" /\ call.route = "/api") =>
           ret.val = authHandler(loadWebAuthConfig(WithMcpSettings(call.env, other)),
                                 call.authorization, call.verified)

\* MCP in api-key mode without a key of its own, Web in api-key mode with the
\* key k1: a /mcp request that carries k1 is answered 500.
C32_FamiliesAreIndependent_Witness ==
  /\ call.name = "routeRequest" /\ call.route = "/mcp"
  /\ call.mcpAuthConfig.mode = "api-key" /\ call.env.MCP_AUTH_API_KEY = Undefined
  /\ call.webAuthConfig.mode = "api-key" /\ call.env.WEB_AUTH_API_KEY = Some(<<"k","1">>)
  /\ call.authorization = Some(<<"B","e","a","r","e","r"," ","k","1">>)
  /\ ret.val.status = 500 /\ ~ret.val.next

\* One invocation of a handler has ended, for a request to a handler made from
\* a configuration or to a route of the started server.
HandlerInvoked == call.name \in {"authHandler", "routeRequest"}

\* C33: one invocation of the handler either calls next() and sends no
\* response, or sends one error response, 401 or 500, and does not call
\* next(); never both and never neither.
C33_NextOrOneErrorResponse ==
  HandlerInvoked =>
    /\ ret.kind = "value"
    /\ ret.val.next <=> (ret.val.status = 0)
    /\ ret.val.next => (ret.val.error = "" /\ ret.val.message = "")
    /\ ~ret.val.next => (ret.val.status \in {401, 500} /\ ret.val.error # "")

\* A configuration whose mode is none of the three, and a bearer request: the
\* handler falls through to its last statement.
C33_NextOrOneErrorResponse_Witness ==
  /\ call.name = "authHandler"
  /\ call.config.mode \notin {"none", "api-key", "jwt"}
  /\ call.authorization = Some(<<"B","e","a","r","e","r"," ","k","1">>)
  /\ ~ret.val.next /\ ret.val.status = 500
  /\ ret.val.message = "Invalid authentication mode"

\* The lines of a text as extractSections sees them: split at "\n" and
\* trimmed.  Of these, the places of the lines that are not blank, and of the
\* accepted headings.
TrimmedLines(content) ==
  [k \in 1..Len(Split(content, "\n")) |-> Trim(Split(content, "\n")[k])]
FilledPlaces(trimmed) == {k \in 1..Len(trimmed) : trimmed[k] # << >>}
HeadingPlaces(trimmed) == {k \in FilledPlaces(trimmed) : IsSectionHeading(trimmed[k])}

\* The i-th smallest member of a set of numbers.
Nth(S, i) == CHOOSE k \in S : Cardinality({m \in S : m < k}) = i - 1

\* The content lines that belong to the heading at place k: the lines that are
\* not blank between it and the next heading or the end of the text.
ContentLinesOf(trimmed, headings, k) ==
  SelectSeq(SubSeq(trimmed, k + 1, SetMin({m \in headings : m > k} \cup {Len(trimmed) + 1}) - 1),
            LAMBDA l : l # << >>)

\* The places of the headings that have content lines.
HeadingsKept(trimmed, headings) ==
  {k \in headings : ContentLinesOf(trimmed, headings, k) # << >>}

\* The content lines after the first heading, counted.
LinesAfterFirstHeading(trimmed, headings) ==
  Cardinality({j \in FilledPlaces(trimmed) \ headings : \E k \in headings : k < j})

\* The lines of the contents of the sections, counted.
LinesInSections(sections) ==
  SumSeq([i \in 1..Len(sections) |-> Len(Split(sections[i].content, "\n"))])

NoPreambleIn(sections, trimmed, headings) ==
  /\ (HeadingsKept(trimmed, headings) = {}) <=> (sections = << >>)
  /\ sections # << >> =>
       sections[1].heading
         = tryMatchHeading(trimmed[SetMin(HeadingsKept(trimmed, headings))]).heading
  /\ LinesInSections(sections) = LinesAfterFirstHeading(trimmed, headings)

\* C34: the lines before the first accepted heading are in no section: the
\* first section is that of the first accepted heading that has content, and
\* the sections hold as many lines as there are content lines after the first
\* accepted heading.
C34_NoPreambleSection ==
  (call.name = "extractSections") =>
    NoPreambleIn(ret.val, TrimmedLines(call.document.content),
                 HeadingPlaces(TrimmedLines(call.document.content)))

\* Two lines of content, then a heading with one line of content.
C34_NoPreambleSection_Witness ==
  /\ call.name = "extractSections"
  /\ call.document.content
       = <<"p">> \o <<"\n">> \o <<" ","q"," ","\r">> \o <<"\n">> \o <<"1","."," ","O","n","e">>
           \o <<"\n">> \o <<"p">>
  /\ ret.val = << [heading |-> <<"1","."," ","O","n","e">>, content |-> <<"p">>, level |-> 1] >>

\* The sections of a text: one for each heading that has content lines, in
\* the order of the headings, its content the content lines joined with "\n".
SectionsOf(trimmed, headings, kept) ==
  [i \in 1..Cardinality(kept) |->
     [heading |-> tryMatchHeading(trimmed[Nth(kept, i)]).heading,
      content |-> Join(ContentLinesOf(trimmed, headings, Nth(kept, i)), "\n"),
      level |-> tryMatchHeading(trimmed[Nth(kept, i)]).level]]
ExpectedSections(trimmed, headings) ==
  SectionsOf(trimmed, headings, HeadingsKept(trimmed, headings))

\* C35: extractSections returns the sections in the order of their headings,
\* the content of each being the trimmed lines that are neither blank nor
\* accepted headings between its heading and the next accepted heading or the
\* end of the text, joined with "\n" in their order; so each such line after
\* the first accepted heading is in exactly one section.
C35_SectionsInDocumentOrder ==
  (call.name = "extractSections") =>
    /\ Len(ret.val) = Cardinality(HeadingsKept(TrimmedLines(call.document.content),
                                               HeadingPlaces(TrimmedLines(call.document.content))))
    /\ \A i \in 1..Len(ret.val) :
         ret.val[i] = ExpectedSections(TrimmedLines(call.document.content),
                                       HeadingPlaces(TrimmedLines(call.document.content)))[i]

\* The three sections of "1. First", "1.1 Sub" and "1.1.1 Deep", in that order.
C35_SectionsInDocumentOrder_Witness ==
  /\ call.name = "extractSections"
  /\ Len(ret.val) = 3
  /\ ret.val[1] = [heading |-> <<"1","."," ","F","i","r","s","t">>, content |-> <<"o","n","e">>, level |-> 1]
  /\ ret.val[2] = [heading |-> <<"1",".","1"," ","S","u","b">>, content |-> <<"t","w","o">>, level |-> 2]
  /\ ret.val[3].level = 3 /\ ret.val[3].content = <<"t","h","r","e","e">>

\* The pattern families that match a line, numbered in the order numeric,
\* Roman numeral, single letter, abbreviation, all capitals; and the heading
\* that a family makes of the line.
FamiliesMatching(line) ==
  {k \in 1..Len(HEADING_PATTERNS) : regexExec(HEADING_PATTERNS[k], line).ok}
HeadingOfFamily(k, line) == extractHeadingInfo(regexExec(HEADING_PATTERNS[k], line))

FirstFamilyDecides(families, line) ==
  families # {} =>
    IF isHeadingAccepted(HeadingOfFamily(SetMin(families), line))
    THEN LineIsSection(HeadingOfFamily(SetMin(families), line).heading,
                       HeadingOfFamily(SetMin(families), line).level)
    ELSE LineIsContent(line)

\* C36: a line is classified by the first of the families, in the order
\* numeric, Roman numeral, single letter, abbreviation, all capitals, that
\* matches it: heading and level are that family's, and when the length rule
\* rejects that heading the line is content.
C36_FirstMatchingFamilyWins ==
  ProbeCall => FirstFamilyDecides(FamiliesMatching(ProbeLine), ProbeLine)

\* "AB  CD" matches the abbreviation family and the all-capitals family; the
\* heading is the abbreviation family's, with one space.
C36_FirstMatchingFamilyWins_Witness ==
  /\ ProbeCall
  /\ ProbeLine = <<"A","B"," "," ","C","D">>
  /\ FamiliesMatching(ProbeLine) = {4, 5}
  /\ HeadingOfFamily(5, ProbeLine).heading = <<"A","B"," "," ","C","D">>
  /\ LineIsSection(<<"A","B"," ","C","D">>, 1)

\* The trimmed lines of a text that are not blank, in their order.
FilledLines(content) == SelectSeq(TrimmedLines(content), LAMBDA l : l # << >>)

\* A line that extractTitle passes over: it holds "page ", or begins with
\* "date", "version", "effective", "revision" or "rev ", in any case.
TitleSkips(lower) ==
  \/ \E k \in 1..(Len(lower) - 4) : SubSeq(lower, k, k + 4) = <<"p","a","g","e"," ">>
  \/ \E word \in { <<"d","a","t","e">>, <<"v","e","r","s","i","o","n">>,
                   <<"e","f","f","e","c","t","i","v","e">>, <<"r","e","v","i","s","i","o","n">>,
                   <<"r","e","v"," ">> } :
        Len(lower) >= Len(word) /\ SubSeq(lower, 1, Len(word)) = word

\* A trimmed line that can be a title: more than 5 and fewer than 150
\* characters, a capital first, and white space between two words.
LooksLikeTitle(line) ==
  /\ Len(line) > 5 /\ Len(line) < 150
  /\ IsUpper(line[1])
  /\ \E k \in 1..Len(line) : IsSpace(line[k])

\* The places, among the first ten lines, of the lines that can be the title.
TitlePlaces(lines) ==
  {i \in 1..Len(lines) : i <= 10 /\ ~TitleSkips(ToLowerCase(lines[i])) /\ LooksLikeTitle(lines[i])}

\* The part of a path after its last "/", without a final .pdf, .docx or .md
\* in any case.
LastComponent(path) ==
  SubSeq(path, SetMax({k \in 1..Len(path) : path[k] = "/"} \cup {0}) + 1, Len(path))
WithoutExtension(name) ==
  IF \E ext \in { <<".","p","d","f">>, <<".","d","o","c","x">>, <<".","m","d">> } :
       Len(name) >= Len(ext)
       /\ ToLowerCase(SubSeq(name, Len(name) - Len(ext) + 1, Len(name))) = ext
  THEN SubSeq(name, 1, SetMax({k \in 1..Len(name) : name[k] = "."}) - 1)
  ELSE name

TitleIs(title, lines, places, filePath) ==
  IF places # {} THEN title = lines[SetMin(places)]
  ELSE title = WithoutExtension(LastComponent(filePath))

McpRequestTaken == call.name \in {"POST /mcp", "GET /mcp", "DELETE /mcp"}
TakenRequest == [op |-> call.name, sessionId |-> call.sessionId]
\* The registry has the session id of that request among its keys (these
\* steps leave the registry as it was when the request arrived).
Registered == call.sessionId.some /\ call.sessionId.str \in transports
Answered400 ==
  /\ response.to = TakenRequest
  /\ "status" \in DOMAIN response
  /\ response.status = 400
\* The handler is suspended with the given transport.
SuspendedWith(stage, transport) ==
  \E slot \in McpSlots :
    /\ mcpRequests[slot] # Free
    /\ mcpRequests[slot] = [stage |-> stage, req |-> TakenRequest, transport |-> transport]
NewTransports ==
  { slot \in McpSlots : mcpRequests[slot] # Free /\ ~mcpRequests[slot].transport.sessionId.some }

\* C38: a /mcp request naming a session id that is not in the registry is
\* answered 400 and reaches no transport (POST with an unregistered or empty
\* id, GET and DELETE with a missing or unregistered id); only a POST without
\* the header creates a transport; a registered id reuses its transport.
C38_UnregisteredIdIsAnswered400 ==
  /\ McpRequestTaken =>
       /\ Registered => SuspendedWith("handling", Transport(call.sessionId))
       /\ (call.sessionId.some /\ ~Registered) => Answered400
       /\ (~call.sessionId.some /\ call.name # "POST /mcp") => Answered400
       /\ (~call.sessionId.some /\ call.name = "POST /mcp") =>
            SuspendedWith("connecting", Transport(Undefined))
  /\ \A slot \in NewTransports :
       mcpRequests[slot].req = [op |-> "POST /mcp", sessionId |-> Undefined]

\* The session ids handed out to transports so far, and those of them whose
\* session has ended.
InitialisedSessions == { UuidString(uuid) : uuid \in issued }
EndedSessions == InitialisedSessions \ transports
SessionEnded ==
  \/ call.name = "onclose" /\ call.sessionId.some
  \/ call.name = "handleRequest" /\ response.to.op = "DELETE /mcp"
RegistryHoldsLiveSessions ==
  /\ transports \subseteq InitialisedSessions
  /\ SessionEnded => call.sessionId.str \notin transports
  /\ (McpRequestTaken /\ call.sessionId.some /\ call.sessionId.str \in EndedSessions)
       => Answered400
  /\ call.name = "GET /health" =>
       response.body.activeSessions = Cardinality(InitialisedSessions \ EndedSessions)

\* C39: the registry holds a session id only from the session's
\* initialisation to its end: once DELETE /mcp has completed or the close
\* callback has run the id is not a key, it never becomes one again, every
\* later request carrying it is answered 400, and /health reports the number
\* of registered sessions, whatever requests of other sessions are in flight.
C39_RegistryHoldsOnlyLiveSessions ==
  /\ []RegistryHoldsLiveSessions
  /\ [][EndedSessions \subseteq EndedSessions']_vars

\* Session 1 has ended while session 2 is registered and a request is
\* suspended: a POST carrying the id of session 1 is answered 400.
C39_RegistryHoldsOnlyLiveSessions_Witness ==
  /\ call = [name |-> "POST /mcp", sessionId |-> Some(UuidString(1))]
  /\ UuidString(1) \in EndedSessions
  /\ UuidString(2) \in transports
  /\ Answered400
  /\ \E slot \in McpSlots : mcpRequests[slot] # Free

\* ---------------------------------------------------------- upload claims
\* The upload handler suspended at `slot` ends with this step, and it has
\* stored a document.
UploadEnds(slot) == uploads[slot] # Free /\ uploads[slot].stage \in {"unlinking", "cleanup"} /\ uploads'[slot] = Free
UploadStored(slot) == "policy" \in DOMAIN uploads[slot]
ErrorAnswer(resp) == "status" \in DOMAIN resp /\ resp.to = [op |-> "POST /api/policies"] /\ resp.status \in {400, 500}

\* C40: a POST /api/policies that is answered with an error status (400 or
\* 500), parse failure and failure of the temporary file's removal included,
\* has stored nothing: the store is as if the request had not been made.
C40_FailedUploadStoresNothing ==
  [][ /\ \A slot \in Slots : (UploadEnds(slot) /\ ErrorAnswer(response')) => ~UploadStored(slot)
      /\ (ErrorAnswer(response') /\ ~\E slot \in Slots : UploadEnds(slot)) => policies' = policies ]_vars
====
